---- MODULE Spec2Model ----
(***************************************************************************)
(* A model of the rusty-engine chess core (src/src/board.rs): the twelve   *)
(* bitboards, make_move / unmake_move, attack detection, the per-piece     *)
(* pseudo-legal generators, the legality filter and the perft harness.     *)
(*                                                                         *)
(* A u64 bitboard is modelled as the set of its set bit positions, so      *)
(* `x |= 1 << s` is `x \cup {s}` and `x &= !(1 << s)` is `x \ {s}`.        *)
(* An Option<T> is modelled as a set with at most one element.             *)
(***************************************************************************)
EXTENDS Integers, Sequences, FiniteSets, TLC

WHITE == TRUE
BLACK == FALSE

None == {}
Some(x) == {x}

PieceTypes == {"Pawn", "Knight", "Bishop", "Rook", "Queen", "King"}

\* utils.rs / board.rs helpers
get_rank(square) == square \div 8
get_file(square) == square % 8

\* i8::abs on a difference of two small values
Abs(x) == IF x < 0 THEN -x ELSE x

\* `as u8` applied to an i8 / i32 value: reduction modulo 2^8
AsU8(x) == x % 256

\* value & mask on the 4-bit castling nibble
BitAnd(x, mask) ==
    ((x % 2) * (mask % 2))
    + 2 * (((x \div 2) % 2) * ((mask \div 2) % 2))
    + 4 * (((x \div 4) % 2) * ((mask \div 4) % 2))
    + 8 * (((x \div 8) % 2) * ((mask \div 8) % 2))

\* Move::new
Move(from, to, piece_type, promotion) ==
    [from |-> from, to |-> to, promotion |-> promotion, piece_type |-> piece_type]

\* Board::new: the starting position
NewBoard ==
    [ white_pawns   |-> 8..15,
      white_knights |-> {1, 6},
      white_bishops |-> {2, 5},
      white_rooks   |-> {0, 7},
      white_queens  |-> {3},
      white_king    |-> {4},
      black_pawns   |-> 48..55,
      black_knights |-> {57, 62},
      black_bishops |-> {58, 61},
      black_rooks   |-> {56, 63},
      black_queens  |-> {59},
      black_king    |-> {60},
      en_passant      |-> None,
      castling_rights |-> 15,
      side_to_move    |-> WHITE,
      halfmove_clock  |-> 0,
      fullmove_number |-> 1 ]

\* bitboard & !(1 << square), as an explicit set
ClearBit(bitboard, square) == {s \in bitboard : s # square}

\* bitboard | (1 << square), as an explicit set
SetBit(bitboard, square) == {s \in 0..63 : s \in bitboard \/ s = square}

white_pieces(b) ==
    b.white_pawns \cup b.white_knights \cup b.white_bishops
        \cup b.white_rooks \cup b.white_queens \cup b.white_king

black_pieces(b) ==
    b.black_pawns \cup b.black_knights \cup b.black_bishops
        \cup b.black_rooks \cup b.black_queens \cup b.black_king

is_on_board(square) == square < 64

is_occupied(b, square) ==
    square \in white_pieces(b) \/ square \in black_pieces(b)

is_occupied_by_side(b, square, side) ==
    IF side = WHITE THEN square \in white_pieces(b) ELSE square \in black_pieces(b)

is_occupied_by_opponent(b, square, side) ==
    IF side = WHITE THEN square \in black_pieces(b) ELSE square \in white_pieces(b)

\* get_piece_type: the first bitboard, in the code's order, that holds the
\* square; "Panic" stands for panic!("No piece on square").
get_piece_type(b, square) ==
    IF square \in b.white_pawns THEN "Pawn"
    ELSE IF square \in b.white_knights THEN "Knight"
    ELSE IF square \in b.white_bishops THEN "Bishop"
    ELSE IF square \in b.white_rooks THEN "Rook"
    ELSE IF square \in b.white_queens THEN "Queen"
    ELSE IF square \in b.white_king THEN "King"
    ELSE IF square \in b.black_pawns THEN "Pawn"
    ELSE IF square \in b.black_knights THEN "Knight"
    ELSE IF square \in b.black_bishops THEN "Bishop"
    ELSE IF square \in b.black_rooks THEN "Rook"
    ELSE IF square \in b.black_queens THEN "Queen"
    ELSE IF square \in b.black_king THEN "King"
    ELSE "Panic"

clear_square(b, square) ==
    [b EXCEPT !.white_pawns = ClearBit(@, square), !.white_knights = ClearBit(@, square),
              !.white_bishops = ClearBit(@, square), !.white_rooks = ClearBit(@, square),
              !.white_queens = ClearBit(@, square), !.white_king = ClearBit(@, square),
              !.black_pawns = ClearBit(@, square), !.black_knights = ClearBit(@, square),
              !.black_bishops = ClearBit(@, square), !.black_rooks = ClearBit(@, square),
              !.black_queens = ClearBit(@, square), !.black_king = ClearBit(@, square)]

\* set_square: sets the bit on the bitboard of (side_to_move, piece_type)
set_square(b, square, piece_type) ==
    IF b.side_to_move = WHITE
    THEN CASE piece_type = "Rook"   -> [b EXCEPT !.white_rooks = SetBit(@, square)]
           [] piece_type = "Knight" -> [b EXCEPT !.white_knights = SetBit(@, square)]
           [] piece_type = "Bishop" -> [b EXCEPT !.white_bishops = SetBit(@, square)]
           [] piece_type = "Queen"  -> [b EXCEPT !.white_queens = SetBit(@, square)]
           [] piece_type = "Pawn"   -> [b EXCEPT !.white_pawns = SetBit(@, square)]
           [] piece_type = "King"   -> [b EXCEPT !.white_king = SetBit(@, square)]
    ELSE CASE piece_type = "Rook"   -> [b EXCEPT !.black_rooks = SetBit(@, square)]
           [] piece_type = "Knight" -> [b EXCEPT !.black_knights = SetBit(@, square)]
           [] piece_type = "Bishop" -> [b EXCEPT !.black_bishops = SetBit(@, square)]
           [] piece_type = "Queen"  -> [b EXCEPT !.black_queens = SetBit(@, square)]
           [] piece_type = "Pawn"   -> [b EXCEPT !.black_pawns = SetBit(@, square)]
           [] piece_type = "King"   -> [b EXCEPT !.black_king = SetBit(@, square)]

\* promote_pawn: clears the square and sets the promoted piece of the side to
\* move; any other piece type is panic!("Invalid promotion") (board left as
\* cleared, the abort is reported by promote_pawn_panics).
promote_pawn(b, square, promotion) ==
    LET c == clear_square(b, square)
    IN  IF promotion \in {"Queen", "Knight", "Rook", "Bishop"}
        THEN set_square(c, square, promotion)
        ELSE c

promote_pawn_panics(promotion) ==
    promotion \notin {"Queen", "Knight", "Rook", "Bishop"}

\* handle_pawn_move as it would be if a double push recorded the square the
\* pawn lands on instead of the square it passes over
handle_pawn_move_target_on_destination(b, mv) ==
    IF mv.piece_type = "Pawn" /\ Abs(get_rank(mv.to) - get_rank(mv.from)) = 2
    THEN [board |-> b, en_passant |-> Some(mv.to)]
    ELSE [board |-> b, en_passant |-> None]

\* handle_pawn_move as it would be if only a double push touched the target:
\* every other move leaves the target as it was
handle_pawn_move_target_kept(b, mv) ==
    LET from_rank == get_rank(mv.from)
        to_rank == get_rank(mv.to)
    IN  IF mv.piece_type # "Pawn" THEN [board |-> b, en_passant |-> b.en_passant]
        ELSE IF b.side_to_move = WHITE /\ from_rank = 1 /\ to_rank = 3
        THEN [board |-> b, en_passant |-> Some(mv.to - 8)]
        ELSE IF b.side_to_move = BLACK /\ from_rank = 6 /\ to_rank = 4
        THEN [board |-> b, en_passant |-> Some(mv.to + 8)]
        ELSE IF b.en_passant = Some(mv.to)
        THEN LET captured_square ==
                     IF b.side_to_move = WHITE THEN mv.to - 8 ELSE mv.to + 8
             IN  [board |-> clear_square(b, captured_square), en_passant |-> None]
        ELSE [board |-> b, en_passant |-> b.en_passant]

\* handle_pawn_move: the en-passant target after the move (None unless a
\* double push) and the board with an en-passant victim removed.
handle_pawn_move(b, mv) ==
    LET from_rank == get_rank(mv.from)
        to_rank == get_rank(mv.to)
    IN  IF mv.piece_type # "Pawn" THEN [board |-> b, en_passant |-> None]
        ELSE IF b.side_to_move = WHITE /\ from_rank = 1 /\ to_rank = 3
        THEN [board |-> b, en_passant |-> Some(mv.to - 8)]
        ELSE IF b.side_to_move = BLACK /\ from_rank = 6 /\ to_rank = 4
        THEN [board |-> b, en_passant |-> Some(mv.to + 8)]
        ELSE IF b.en_passant = Some(mv.to)
        THEN LET captured_square ==
                     IF b.side_to_move = WHITE THEN mv.to - 8 ELSE mv.to + 8
             IN  [board |-> clear_square(b, captured_square), en_passant |-> None]
        ELSE [board |-> b, en_passant |-> None]

\* update_castling_rights as it would be with `|=` and the mover's own mask
\* where the code has `&=` and the opponent's: a king move sets bits
update_castling_rights_or_assign(b, mv) ==
    IF mv.piece_type = "King"
    THEN [b EXCEPT !.castling_rights =
             IF b.side_to_move = WHITE
             THEN @ + 3 - BitAnd(@, 3)
             ELSE @ + 12 - BitAnd(@, 12)]
    ELSE b

\* update_castling_rights as it would be if only King moves took rights away
update_castling_rights_king_only(b, mv) ==
    IF mv.piece_type = "King"
    THEN [b EXCEPT !.castling_rights =
             IF b.side_to_move = WHITE THEN BitAnd(@, 12) ELSE BitAnd(@, 3)]
    ELSE b

\* update_castling_rights
update_castling_rights(b, mv) ==
    LET r0 == b.castling_rights
        r1 == IF mv.piece_type = "King"
              THEN (IF b.side_to_move = WHITE THEN BitAnd(r0, 12) ELSE BitAnd(r0, 3))
              ELSE r0
        r2 == IF mv.piece_type = "Rook"
              THEN CASE mv.from = 0 /\ b.side_to_move = WHITE -> BitAnd(r1, 13)
                     [] mv.from = 7 /\ b.side_to_move = WHITE -> BitAnd(r1, 14)
                     [] mv.from = 56 /\ b.side_to_move = BLACK -> BitAnd(r1, 7)
                     [] mv.from = 63 /\ b.side_to_move = BLACK -> BitAnd(r1, 11)
                     [] OTHER -> r1
              ELSE r1
        r3 == CASE mv.to = 0 /\ b.side_to_move = BLACK -> BitAnd(r2, 13)
                [] mv.to = 7 /\ b.side_to_move = BLACK -> BitAnd(r2, 14)
                [] mv.to = 56 /\ b.side_to_move = WHITE -> BitAnd(r2, 7)
                [] mv.to = 63 /\ b.side_to_move = WHITE -> BitAnd(r2, 11)
                [] OTHER -> r2
    IN  [b EXCEPT !.castling_rights = r3]

\* handle_castling: rook co-movement and rights; a destination outside
\* {2, 6, 58, 62} is panic!("Invalid castling move") (handle_castling_panics).
handle_castling(b, to) ==
    LET rook_from == CASE to = 2 -> 0 [] to = 6 -> 7 [] to = 58 -> 56 [] to = 62 -> 63
                       [] OTHER -> 64
        rook_to == CASE to = 2 -> 3 [] to = 6 -> 5 [] to = 58 -> 59 [] to = 62 -> 61
                     [] OTHER -> 64
        rights == IF to \in {2, 6} THEN BitAnd(b.castling_rights, 12)
                  ELSE BitAnd(b.castling_rights, 3)
    IN  IF to \in {2, 6, 58, 62}
        THEN set_square(clear_square([b EXCEPT !.castling_rights = rights], rook_from),
                        rook_to, "Rook")
        ELSE b

\* handle_castling's abort as it would be if the match had no arms for the
\* queen-side destinations 2 and 58
handle_castling_panics_on_queenside(to) == to \notin {6, 62}

handle_castling_panics(to) == to \notin {2, 6, 58, 62}

\* make_move as it would be if it left a captured piece on its bitboard
capture_piece_left_standing(b, to, is_capture) == b

\* make_move, "Check if the 'to' square is occupied by an opponent's piece and
\* capture it"
capture_piece(b, to, is_capture) ==
    IF is_capture THEN clear_square(b, to) ELSE b

\* make_move as it would be if it did not store the en-passant target that
\* handle_pawn_move reports
set_en_passant_after_forgotten(pawn_move) == pawn_move.board

\* make_move, "Handle en passant": the target handle_pawn_move reports
set_en_passant_after(pawn_move) ==
    [pawn_move.board EXCEPT !.en_passant = pawn_move.en_passant]

\* make_move, "Toggle the side to move" and "Update the fullmove number if
\* Black has moved"
toggle_side_to_move(b) ==
    IF b.side_to_move = BLACK
    THEN [b EXCEPT !.side_to_move = WHITE, !.fullmove_number = (@ + 1) % 65536]
    ELSE [b EXCEPT !.side_to_move = BLACK]

\* make_move: returns the mutated board, the UndoState, whether the call
\* aborted in handle_castling or promote_pawn, and whether one of its two
\* `+= 1` overflowed (the counter wraps in a build without overflow checks
\* and the call aborts in a build with them).
make_move(b, mv) ==
    LET is_pawn_advance == mv.piece_type = "Pawn"
        is_capture == is_occupied_by_opponent(b, mv.to, b.side_to_move)
        is_en_passant_capture == is_pawn_advance /\ b.en_passant = Some(mv.to)
        captured_piece ==
            IF is_capture THEN Some(get_piece_type(b, mv.to))
            ELSE IF is_en_passant_capture THEN Some("Pawn")
            ELSE None
        undo_state ==
            [ captured_piece  |-> captured_piece,
              en_passant      |-> b.en_passant,
              castling_rights |-> b.castling_rights,
              halfmove_clock  |-> b.halfmove_clock,
              fullmove_number |-> b.fullmove_number ]
        b1 == [b EXCEPT !.halfmove_clock =
                  IF is_pawn_advance \/ is_capture THEN 0 ELSE (@ + 1) % 256]
        b2 == capture_piece(b1, mv.to, is_capture)
        b3 == clear_square(b2, mv.from)
        b4 == set_square(b3, mv.to, mv.piece_type)
        is_castle == mv.piece_type = "King" /\ Abs(mv.from - mv.to) = 2
        b5 == IF is_castle THEN handle_castling(b4, mv.to) ELSE b4
        b6 == update_castling_rights(b5, mv)
        b7 == set_en_passant_after(handle_pawn_move(b6, mv))
        b8 == IF mv.promotion # None
              THEN promote_pawn(b7, mv.to, CHOOSE p \in mv.promotion : TRUE)
              ELSE b7
    IN  [ board |-> toggle_side_to_move(b8),
          undo  |-> undo_state,
          panic |-> \/ (is_castle /\ handle_castling_panics(mv.to))
                    \/ (mv.promotion # None
                        /\ promote_pawn_panics(CHOOSE p \in mv.promotion : TRUE)),
          \* the side to move changes only in the last step, which is also
          \* the only one to touch the fullmove number
          overflow |-> \/ (~(is_pawn_advance \/ is_capture) /\ b.halfmove_clock = 255)
                       \/ (b.side_to_move = BLACK /\ b.fullmove_number = 65535) ]

\* unmake_move, "Restore the captured piece", en-passant branch
restore_en_passant_pawn(b, to) ==
    LET captured_square == IF b.side_to_move = WHITE THEN to + 8 ELSE to - 8
    IN  set_square(b, captured_square, "Pawn")

\* unmake_move as it would be if it left the castled rook where it stands
move_rook_back_forgotten(b, to) == b

\* unmake_move, "If the move was a castling move, move the rook back"
move_rook_back(b, to) ==
    LET base_from == IF to \in {2, 58} THEN 0 ELSE 7
        base_to == IF to \in {2, 58} THEN 3 ELSE 5
        rook_from == IF b.side_to_move = WHITE THEN base_from ELSE base_from + 56
        rook_to == IF b.side_to_move = WHITE THEN base_to ELSE base_to + 56
    IN  set_square(clear_square(b, rook_to), rook_from, "Rook")

\* unmake_move as it would be without the branch that puts a captured piece
\* back on the destination square
unmake_move_without_captured_piece(b, mv, undo_state) ==
    LET c0 == clear_square(b, mv.to)
        c1 == IF Some(mv.to) = undo_state.en_passant
              THEN restore_en_passant_pawn(c0, mv.to)
              ELSE c0
        c2 == [c1 EXCEPT !.side_to_move = ~@,
                         !.en_passant = undo_state.en_passant,
                         !.castling_rights = undo_state.castling_rights,
                         !.halfmove_clock = undo_state.halfmove_clock,
                         !.fullmove_number = undo_state.fullmove_number]
        c3 == set_square(c2, mv.from, mv.piece_type)
        is_castle == mv.piece_type = "King" /\ Abs(mv.from - mv.to) = 2
    IN  IF is_castle /\ mv.to \in {2, 6, 58, 62}
        THEN move_rook_back(c3, mv.to)
        ELSE c3

\* unmake_move
unmake_move(b, mv, undo_state) ==
    LET c0 == clear_square(b, mv.to)
        c1 == IF Some(mv.to) = undo_state.en_passant
              THEN restore_en_passant_pawn(c0, mv.to)
              ELSE IF undo_state.captured_piece # None
              THEN set_square(c0, mv.to, CHOOSE p \in undo_state.captured_piece : TRUE)
              ELSE c0
        c2 == [c1 EXCEPT !.side_to_move = ~@,
                         !.en_passant = undo_state.en_passant,
                         !.castling_rights = undo_state.castling_rights,
                         !.halfmove_clock = undo_state.halfmove_clock,
                         !.fullmove_number = undo_state.fullmove_number]
        c3 == set_square(c2, mv.from, mv.piece_type)
        is_castle == mv.piece_type = "King" /\ Abs(mv.from - mv.to) = 2
    IN  IF is_castle /\ mv.to \in {2, 6, 58, 62}
        THEN move_rook_back(c3, mv.to)
        ELSE c3

unmake_move_panics(mv) ==
    mv.piece_type = "King" /\ Abs(mv.from - mv.to) = 2 /\ mv.to \notin {2, 6, 58, 62}

\* bitboard_to_square: trailing_zeros, i.e. the lowest set bit, 64 when empty
bitboard_to_square(bitboard) ==
    IF bitboard = {} THEN 64
    ELSE CHOOSE s \in bitboard : \A t \in bitboard : s <= t

\* is_attacked_by_pawns
is_attacked_by_pawns(b, square, side) ==
    LET pawn_attacks == IF side = WHITE THEN <<7, 9>> ELSE <<-9, -7>>
        pawn_bitboard == IF side = WHITE THEN b.black_pawns ELSE b.white_pawns
    IN  \E i \in 1..2 :
            LET attack_square == AsU8(square + pawn_attacks[i])
            IN  /\ is_on_board(attack_square)
                /\ attack_square \in pawn_bitboard
                /\ Abs(get_file(square) - get_file(attack_square)) = 1

KnightOffsets == <<-17, -15, -10, -6, 6, 10, 15, 17>>

\* is_attacked_by_knights
is_attacked_by_knights(b, square, side) ==
    LET knight_bitboard == IF side = WHITE THEN b.black_knights ELSE b.white_knights
    IN  \E i \in 1..8 :
            LET attack_square == AsU8(square + KnightOffsets[i])
            IN  /\ is_on_board(attack_square)
                /\ attack_square \in knight_bitboard
                /\ Abs(get_rank(square) - get_rank(attack_square)) <= 2
                /\ Abs(get_file(square) - get_file(attack_square)) <= 2

DiagonalDirs == <<-9, -7, 7, 9>>
StraightDirs == <<-8, -1, 1, 8>>

\* One direction of is_attacked_by_sliding_pieces, the two `return true` tests
\* of the loop body on the i8 square `next`: an enemy bishop or queen on a
\* diagonal direction, or an enemy rook or queen on a straight one
ray_hits(b, square, side, dir, next) ==
    LET enemy_bishops == IF side = WHITE THEN b.black_bishops ELSE b.white_bishops
        enemy_rooks == IF side = WHITE THEN b.black_rooks ELSE b.white_rooks
        enemy_queens == IF side = WHITE THEN b.black_queens ELSE b.white_queens
        rank_delta == Abs(get_rank(square) - get_rank(next))
        file_delta == Abs(get_file(square) - get_file(next))
    IN  \/ /\ (next \in enemy_bishops \/ next \in enemy_queens)
           /\ dir \in {-9, -7, 7, 9}
           /\ rank_delta = file_delta
        \/ /\ (next \in enemy_rooks \/ next \in enemy_queens)
           /\ dir \in {-8, -1, 1, 8}
           /\ (rank_delta = 0 \/ file_delta = 0)

\* The loop leaves at `next`: off the board, a hit, or an occupied square
ray_ends(b, square, side, dir, next) ==
    \/ ~is_on_board(AsU8(next))
    \/ ray_hits(b, square, side, dir, next)
    \/ is_occupied(b, next)

\* What the loop returns when `next` is the square it leaves at
ray_result(b, square, side, dir, next) ==
    is_on_board(AsU8(next)) /\ ray_hits(b, square, side, dir, next)

\* One direction of is_attacked_by_sliding_pieces: the loop from attack_square
\* (the i8 value before `+= dir`) runs to the first square it leaves at; no
\* test stops it at the edge of the board, so a ray goes on in the next rank
sliding_ray(b, square, side, dir, attack_square) ==
    ray_result(b, square, side, dir,
               attack_square + dir * (CHOOSE k \in 1..64 :
                   /\ ray_ends(b, square, side, dir, attack_square + dir * k)
                   /\ \A j \in 1..(k - 1) :
                          ~ray_ends(b, square, side, dir, attack_square + dir * j)))

\* is_attacked_by_sliding_pieces
is_attacked_by_sliding_pieces(b, square, side, directions) ==
    \E i \in 1..Len(directions) : sliding_ray(b, square, side, directions[i], square)

KingOffsets == <<-9, -8, -7, -1, 1, 7, 8, 9>>

\* is_attacked_by_king
is_attacked_by_king(b, square, side) ==
    LET king_bitboard == IF side = WHITE THEN b.black_king ELSE b.white_king
    IN  IF Abs(bitboard_to_square(b.black_king) - bitboard_to_square(b.white_king)) > 9
        THEN FALSE
        ELSE \E i \in 1..8 :
                LET attack_square == AsU8(square + KingOffsets[i])
                IN  /\ is_on_board(attack_square)
                    /\ attack_square \in king_bitboard
                    /\ Abs(get_rank(square) - get_rank(attack_square)) <= 1
                    /\ Abs(get_file(square) - get_file(attack_square)) <= 1

\* is_square_attacked
is_square_attacked(b, square, side) ==
    \/ is_attacked_by_pawns(b, square, side)
    \/ is_attacked_by_knights(b, square, side)
    \/ is_attacked_by_sliding_pieces(b, square, side, DiagonalDirs)
    \/ is_attacked_by_sliding_pieces(b, square, side, StraightDirs)
    \/ is_attacked_by_king(b, square, side)

\* is_in_check: the same five tests on the square of side's king
is_in_check(b, side) ==
    LET king_pos == IF side = WHITE THEN bitboard_to_square(b.white_king)
                    ELSE bitboard_to_square(b.black_king)
    IN  \/ is_attacked_by_pawns(b, king_pos, side)
        \/ is_attacked_by_knights(b, king_pos, side)
        \/ is_attacked_by_sliding_pieces(b, king_pos, side, DiagonalDirs)
        \/ is_attacked_by_sliding_pieces(b, king_pos, side, StraightDirs)
        \/ is_attacked_by_king(b, king_pos, side)

\* Concatenation of seqs[lo], ..., seqs[hi] in index order (Vec::append /
\* Vec::push in loop order), split in halves to keep the evaluation shallow
RECURSIVE concat_range(_, _, _)
concat_range(seqs, lo, hi) ==
    IF lo > hi THEN << >>
    ELSE IF lo = hi THEN seqs[lo]
    ELSE LET mid == (lo + hi) \div 2
         IN  concat_range(seqs, lo, mid) \o concat_range(seqs, mid + 1, hi)

\* The set bits of a bitboard in ascending order: the squares for which
\* `for from in 0..64 { if bitboard & (1 << from) != 0 {` runs its body
bit_squares(bitboard) ==
    [i \in 1..Cardinality(bitboard) |->
        CHOOSE s \in bitboard : Cardinality({t \in bitboard : t < s}) = i - 1]

\* Rust's `%` on a signed value truncates toward zero
RustRem(a, n) == IF a >= 0 THEN a % n ELSE -((-a) % n)

\* The promotion moves as they would be if only the queen were offered
promotion_moves_queen_only(from, to) ==
    << Move(from, to, "Pawn", Some("Queen")) >>

\* The four promotion moves pushed for a pawn reaching the last rank
promotion_moves(from, to) ==
    << Move(from, to, "Pawn", Some("Queen")), Move(from, to, "Pawn", Some("Rook")),
       Move(from, to, "Pawn", Some("Bishop")), Move(from, to, "Pawn", Some("Knight")) >>

\* generate_pawn_moves, "Single move forward"
pawn_single_push(b, from) ==
    LET direction == IF b.side_to_move = WHITE THEN 8 ELSE -8
        to == AsU8(from + direction)
    IN  IF ~is_occupied(b, to)
        THEN IF get_rank(to) = (IF b.side_to_move = WHITE THEN 7 ELSE 0)
             THEN promotion_moves(from, to)
             ELSE << Move(from, to, "Pawn", None) >>
        ELSE << >>

\* generate_pawn_moves, "Double move forward"
pawn_double_push(b, from) ==
    LET direction == IF b.side_to_move = WHITE THEN 8 ELSE -8
        start_rank == IF b.side_to_move = WHITE THEN 1 ELSE 6
        to == AsU8(from + 2 * direction)
    IN  IF /\ get_rank(from) = start_rank
           /\ ~is_occupied(b, to)
           /\ ~is_occupied(b, AsU8(from + direction))
        THEN << Move(from, to, "Pawn", None) >>
        ELSE << >>

\* generate_pawn_moves, "Captures", one attack offset
pawn_capture(b, from, offset) ==
    LET to == AsU8(from + offset)
    IN  IF /\ is_on_board(to)
           /\ is_occupied_by_opponent(b, to, b.side_to_move)
           /\ Abs((from % 8) - (to % 8)) <= 1
        THEN IF get_rank(to) = (IF b.side_to_move = WHITE THEN 7 ELSE 0)
             THEN promotion_moves(from, to)
             ELSE << Move(from, to, "Pawn", None) >>
        ELSE << >>

\* generate_pawn_moves, "En passant captures": the test on board_copy, the
\* board `made` that the simulated make_move leaves with the captured pawn
\* cleared once more
en_passant_checked(b, mv, made) ==
    LET captured_pawn_square ==
            IF b.side_to_move = WHITE THEN AsU8(mv.to - 8) ELSE AsU8(mv.to + 8)
        pawns == IF b.side_to_move = WHITE THEN "black_pawns" ELSE "white_pawns"
    IN  IF ~is_in_check([made EXCEPT ![pawns] = ClearBit(@, captured_pawn_square)],
                        b.side_to_move)
        THEN << mv >>
        ELSE << >>

\* generate_pawn_moves, "En passant captures", one attack offset: the capture
\* is simulated on a copy of the board and pushed only if the mover's king is
\* not in check afterwards.
pawn_en_passant(b, from, offset) ==
    LET to == AsU8(from + offset)
    IN  IF b.en_passant # None /\ Some(to) = b.en_passant
           /\ Abs((from % 8) - (to % 8)) <= 1
        THEN en_passant_checked(b, Move(from, to, "Pawn", None),
                                make_move(b, Move(from, to, "Pawn", None)).board)
        ELSE << >>

\* generate_pawn_moves, "En passant captures": whether the simulated
\* board_copy.make_move overflows a counter
pawn_en_passant_overflows(b, from, offset) ==
    LET to == AsU8(from + offset)
    IN  /\ b.en_passant # None /\ Some(to) = b.en_passant
        /\ Abs((from % 8) - (to % 8)) <= 1
        /\ make_move(b, Move(from, to, "Pawn", None)).overflow

\* generate_pawn_moves: the body of `for from in 0..64` for one pawn
pawn_moves_from(b, from) ==
    LET attack_offsets == IF b.side_to_move = WHITE THEN <<7, 9>> ELSE <<-9, -7>>
    IN  pawn_single_push(b, from) \o pawn_double_push(b, from)
        \o concat_range([i \in 1..2 |-> pawn_capture(b, from, attack_offsets[i])], 1, 2)
        \o concat_range([i \in 1..2 |-> pawn_en_passant(b, from, attack_offsets[i])],
                        1, 2)

\* generate_knight_moves: the push, if any, for one knight and one offset
knight_move(b, from, move_offset) ==
    LET to == AsU8(from + move_offset)
        row_delta == Abs((from \div 8) - (to \div 8))
        col_delta == Abs((from % 8) - (to % 8))
    IN  IF /\ is_on_board(to)
           /\ ~is_occupied_by_side(b, to, b.side_to_move)
           /\ ((row_delta = 2 /\ col_delta = 1) \/ (row_delta = 1 /\ col_delta = 2))
        THEN << Move(from, to, "Knight", None) >>
        ELSE << >>

\* generate_knight_moves: the body of `for from in 0..64` for one knight
knight_moves_from(b, from) ==
    concat_range([i \in 1..8 |-> knight_move(b, from, KnightOffsets[i])], 1, 8)

\* The "prevent wrapping around" break test of the bishop, rook and queen loops
\* (to is the i8 square after `to += dir`)
slide_wraps(piece_type, dir, to) ==
    LET straight == (dir = -1 /\ RustRem(to, 8) = 7) \/ (dir = 1 /\ RustRem(to, 8) = 0)
        diagonal == \/ (dir = -9 /\ (RustRem(to, 8) = 7 \/ to < 0))
                    \/ (dir = -7 /\ (RustRem(to, 8) = 0 \/ to < 0))
                    \/ (dir = 9 /\ (RustRem(to, 8) = 0 \/ to > 63))
                    \/ (dir = 7 /\ (RustRem(to, 8) = 7 \/ to > 63))
    IN  CASE piece_type = "Bishop" -> diagonal
          [] piece_type = "Rook" -> straight
          [] piece_type = "Queen" -> straight \/ diagonal

\* The `loop` of generate_bishop_moves / generate_rook_moves /
\* generate_queen_moves along one direction, from the i8 square `at`
RECURSIVE slide_moves(_, _, _, _, _)
slide_moves(b, from, dir, at, piece_type) ==
    LET to == at + dir
    IN  IF slide_wraps(piece_type, dir, to) THEN << >>
        ELSE IF ~is_on_board(AsU8(to)) THEN << >>
        ELSE IF is_occupied_by_side(b, to, b.side_to_move) THEN << >>
        ELSE << Move(from, to, piece_type, None) >>
             \o (IF is_occupied_by_opponent(b, to, b.side_to_move) THEN << >>
                 ELSE slide_moves(b, from, dir, to, piece_type))

\* `for &dir in &directions` for one bishop, rook or queen
slider_moves_from(b, from, piece_type, directions) ==
    concat_range([i \in 1..Len(directions) |->
                     slide_moves(b, from, directions[i], from, piece_type)],
                 1, Len(directions))

\* can_castle_kingside as it would be if only the king's destination were
\* tested for attacks
can_castle_kingside_destination_only(b) ==
    LET castling_rights_mask == IF b.side_to_move = WHITE THEN 1 ELSE 4
        empty_squares_mask == IF b.side_to_move = WHITE THEN {5, 6} ELSE {61, 62}
        all_pieces == white_pieces(b) \cup black_pieces(b)
    IN  /\ BitAnd(b.castling_rights, castling_rights_mask) # 0
        /\ all_pieces \cap empty_squares_mask = {}
        /\ ~is_in_check(b, b.side_to_move)
        /\ ~is_square_attacked(b, IF b.side_to_move = WHITE THEN 6 ELSE 62, b.side_to_move)

\* can_castle_kingside
can_castle_kingside(b) ==
    LET castling_rights_mask == IF b.side_to_move = WHITE THEN 1 ELSE 4
        empty_squares_mask == IF b.side_to_move = WHITE THEN {5, 6} ELSE {61, 62}
        all_pieces == white_pieces(b) \cup black_pieces(b)
        king_pass_through_squares == IF b.side_to_move = WHITE THEN <<5, 6>> ELSE <<61, 62>>
    IN  /\ BitAnd(b.castling_rights, castling_rights_mask) # 0
        /\ all_pieces \cap empty_squares_mask = {}
        /\ ~is_in_check(b, b.side_to_move)
        /\ \A i \in 1..2 : ~is_square_attacked(b, king_pass_through_squares[i], b.side_to_move)

\* can_castle_queenside
can_castle_queenside(b) ==
    LET castling_rights_mask == IF b.side_to_move = WHITE THEN 2 ELSE 8
        empty_squares_mask == IF b.side_to_move = WHITE THEN {1, 2, 3} ELSE {57, 58, 59}
        all_pieces == white_pieces(b) \cup black_pieces(b)
        king_pass_through_squares == IF b.side_to_move = WHITE THEN <<2, 3>> ELSE <<58, 59>>
    IN  /\ BitAnd(b.castling_rights, castling_rights_mask) # 0
        /\ all_pieces \cap empty_squares_mask = {}
        /\ ~is_in_check(b, b.side_to_move)
        /\ \A i \in 1..2 : ~is_square_attacked(b, king_pass_through_squares[i], b.side_to_move)

\* generate_king_moves: the push, if any, for one neighbour offset
king_step(b, from, move_offset) ==
    LET to == AsU8(from + move_offset)
    IN  IF /\ Abs((from % 8) - (to % 8)) <= 1
           /\ is_on_board(to)
           /\ ~is_occupied_by_side(b, to, b.side_to_move)
        THEN << Move(from, to, "King", None) >>
        ELSE << >>

\* generate_king_moves: `for &move_offset in &king_moves`
king_steps_from(b, from) ==
    concat_range([i \in 1..8 |-> king_step(b, from, KingOffsets[i])], 1, 8)

\* generate_king_moves: the two castling pushes
king_castling_moves(b, from) ==
    (IF /\ \/ (b.side_to_move = WHITE /\ BitAnd(b.castling_rights, 1) # 0)
           \/ (b.side_to_move = BLACK /\ BitAnd(b.castling_rights, 4) # 0)
        /\ can_castle_kingside(b)
     THEN << Move(from, IF b.side_to_move = WHITE THEN 6 ELSE 62, "King", None) >>
     ELSE << >>)
    \o
    (IF /\ \/ (b.side_to_move = WHITE /\ BitAnd(b.castling_rights, 2) # 0)
           \/ (b.side_to_move = BLACK /\ BitAnd(b.castling_rights, 8) # 0)
        /\ can_castle_queenside(b)
     THEN << Move(from, IF b.side_to_move = WHITE THEN 2 ELSE 58, "King", None) >>
     ELSE << >>)

\* The moves one generator pushes for the piece standing on `from`
moves_from(b, piece_type, from) ==
    CASE piece_type = "Pawn" -> pawn_moves_from(b, from)
      [] piece_type = "Knight" -> knight_moves_from(b, from)
      [] piece_type = "Bishop" -> slider_moves_from(b, from, "Bishop", DiagonalDirs)
      [] piece_type = "Rook" -> slider_moves_from(b, from, "Rook", StraightDirs)
      [] piece_type = "Queen" -> slider_moves_from(b, from, "Queen", KingOffsets)
      [] piece_type = "King" -> king_steps_from(b, from) \o king_castling_moves(b, from)

\* The bitboard a generator scans: the side to move's pieces of one type
own_bitboard(b, piece_type) ==
    IF b.side_to_move = WHITE
    THEN CASE piece_type = "Pawn" -> b.white_pawns [] piece_type = "Knight" -> b.white_knights
           [] piece_type = "Bishop" -> b.white_bishops [] piece_type = "Rook" -> b.white_rooks
           [] piece_type = "Queen" -> b.white_queens [] piece_type = "King" -> b.white_king
    ELSE CASE piece_type = "Pawn" -> b.black_pawns [] piece_type = "Knight" -> b.black_knights
           [] piece_type = "Bishop" -> b.black_bishops [] piece_type = "Rook" -> b.black_rooks
           [] piece_type = "Queen" -> b.black_queens [] piece_type = "King" -> b.black_king

\* One generator: `for from in 0..64 { if bitboard & (1 << from) != 0 { ... } }`
generate_piece_moves(b, piece_type) ==
    LET squares == bit_squares(own_bitboard(b, piece_type))
    IN  concat_range([i \in 1..Len(squares) |-> moves_from(b, piece_type, squares[i])],
                     1, Len(squares))

generate_pawn_moves(b) == generate_piece_moves(b, "Pawn")
generate_knight_moves(b) == generate_piece_moves(b, "Knight")
generate_bishop_moves(b) == generate_piece_moves(b, "Bishop")
generate_rook_moves(b) == generate_piece_moves(b, "Rook")
generate_queen_moves(b) == generate_piece_moves(b, "Queen")
generate_king_moves(b) == generate_piece_moves(b, "King")

\* The order in which generate_legal_moves appends the six generators' moves:
\* generate_pawn_moves, generate_knight_moves, generate_bishop_moves,
\* generate_rook_moves, generate_queen_moves, generate_king_moves
GeneratorOrder == << "Pawn", "Knight", "Bishop", "Rook", "Queen", "King" >>

\* The candidate list generate_legal_moves builds before filtering
pseudo_legal_moves(b) ==
    concat_range([i \in 1..6 |-> generate_piece_moves(b, GeneratorOrder[i])], 1, 6)

\* Whether a counter overflows while the candidate list is built
pseudo_legal_overflows(b) ==
    LET attack_offsets == IF b.side_to_move = WHITE THEN <<7, 9>> ELSE <<-9, -7>>
    IN  \E from \in own_bitboard(b, "Pawn"), i \in 1..2 :
            pawn_en_passant_overflows(b, from, attack_offsets[i])

\* The retain closure as it would be if it kept every candidate
retain_made_without_check_test(acc, mv, made) ==
    [ board |-> unmake_move(made.board, mv, made.undo),
      moves |-> Append(acc.moves, mv),
      panic |-> acc.panic \/ made.panic \/ unmake_move_panics(mv),
      overflow |-> acc.overflow \/ made.overflow ]

\* The moves.retain(...) closure once make_move has returned `made`: the
\* mover's king is tested, and the move is unmade.
retain_made(acc, mv, made) ==
    [ board |-> unmake_move(made.board, mv, made.undo),
      moves |-> IF ~is_in_check(made.board, ~made.board.side_to_move)
                THEN Append(acc.moves, mv)
                ELSE acc.moves,
      panic |-> acc.panic \/ made.panic \/ unmake_move_panics(mv),
      overflow |-> acc.overflow \/ made.overflow ]

\* One call of the moves.retain(...) closure
retain_step(acc, mv) == retain_made(acc, mv, make_move(acc.board, mv))

\* moves.retain(...) over candidates lo..hi in order, the board threaded
\* through all of them; a panic ends the loop.  (The range is split in halves
\* to keep the evaluation shallow.)
RECURSIVE retain_legal(_, _, _, _)
RECURSIVE retain_rest(_, _, _, _)
retain_legal(acc, moves, lo, hi) ==
    IF lo > hi THEN acc
    ELSE IF lo = hi THEN retain_step(acc, moves[lo])
    ELSE retain_rest(retain_legal(acc, moves, lo, (lo + hi) \div 2),
                     moves, (lo + hi) \div 2 + 1, hi)

\* moves.retain(...) over candidates lo..hi after the ones before them
retain_rest(first_half, moves, lo, hi) ==
    IF first_half.panic THEN first_half ELSE retain_legal(first_half, moves, lo, hi)

\* generate_legal_moves after the retain pass: the retained moves, the board
\* as the call leaves it, whether the call aborted in a panic! of make_move or
\* unmake_move, whether a counter overflowed on the way, and whether the
\* assert_eq! on the snapshot taken at entry fails.
legal_moves_result(initial_state, kept) ==
    [ moves |-> kept.moves,
      board |-> kept.board,
      panic |-> kept.panic,
      overflow |-> kept.overflow,
      board_state_changed |-> kept.board # initial_state ]

\* generate_legal_moves from the candidate list on
filter_legal_moves(b, moves) ==
    legal_moves_result(b, retain_legal([board |-> b, moves |-> << >>, panic |-> FALSE,
                                        overflow |-> pseudo_legal_overflows(b)],
                                       moves, 1, Len(moves)))

\* generate_legal_moves
generate_legal_moves(b) == filter_legal_moves(b, pseudo_legal_moves(b))

\* the loop body of perft_helper once the recursive call has returned `sub`
perft_unmake(acc, mv, undo_state, sub) ==
    IF sub.panic
    THEN [acc EXCEPT !.board = sub.board, !.panic = TRUE,
                     !.overflow = @ \/ sub.overflow]
    ELSE [ nodes |-> acc.nodes + sub.nodes,
           board |-> unmake_move(sub.board, mv, undo_state),
           panic |-> unmake_move_panics(mv),
           overflow |-> acc.overflow \/ sub.overflow ]

\* perft_helper: the node count, the board as the call leaves it, whether
\* the call aborted, and whether a counter overflowed on the way
RECURSIVE perft_helper(_, _)
RECURSIVE perft_moves(_, _)
RECURSIVE perft_loop(_, _, _, _, _)
RECURSIVE perft_rest(_, _, _, _, _)
RECURSIVE perft_made(_, _, _, _)
perft_helper(b, depth) ==
    IF depth = 0 THEN [nodes |-> 1, board |-> b, panic |-> FALSE, overflow |-> FALSE]
    ELSE perft_moves(generate_legal_moves(b), depth)

\* perft_helper once generate_legal_moves has returned
perft_moves(gen, depth) ==
    IF gen.panic \/ gen.board_state_changed
    THEN [nodes |-> 0, board |-> gen.board, panic |-> TRUE, overflow |-> gen.overflow]
    ELSE perft_loop([nodes |-> 0, board |-> gen.board, panic |-> FALSE,
                     overflow |-> gen.overflow],
                    depth, gen.moves, 1, Len(gen.moves))

\* the `for mv in legal_moves` loop of perft_helper over moves lo..hi; a panic
\* ends the loop
perft_loop(acc, depth, legal_moves, lo, hi) ==
    IF lo > hi THEN acc
    ELSE IF lo = hi
    THEN perft_made(acc, depth, legal_moves[lo], make_move(acc.board, legal_moves[lo]))
    ELSE perft_rest(perft_loop(acc, depth, legal_moves, lo, (lo + hi) \div 2),
                    depth, legal_moves, (lo + hi) \div 2 + 1, hi)

\* the loop over moves lo..hi after the ones before them
perft_rest(first_half, depth, legal_moves, lo, hi) ==
    IF first_half.panic THEN first_half
    ELSE perft_loop(first_half, depth, legal_moves, lo, hi)

\* the loop body once make_move has returned `made`
perft_made(acc, depth, mv, made) ==
    IF made.panic
    THEN [acc EXCEPT !.board = made.board, !.panic = TRUE,
                     !.overflow = @ \/ made.overflow]
    ELSE perft_unmake([acc EXCEPT !.overflow = @ \/ made.overflow], mv, made.undo,
                      perft_helper(made.board, depth - 1))

(***************************************************************************)
(* Evaluation and search                                                   *)
(***************************************************************************)
I32Max == 2147483647

Max(x, y) == IF x >= y THEN x ELSE y

\* bitboard_material: bitboard.count_ones()
bitboard_material(bitboard) == Cardinality(bitboard)

\* evaluate
evaluate(b) ==
    LET white_material == bitboard_material(b.white_pawns) * 1
                          + bitboard_material(b.white_knights) * 3
                          + bitboard_material(b.white_bishops) * 3
                          + bitboard_material(b.white_rooks) * 5
                          + bitboard_material(b.white_queens) * 9
        black_material == bitboard_material(b.black_pawns) * 1
                          + bitboard_material(b.black_knights) * 3
                          + bitboard_material(b.black_bishops) * 3
                          + bitboard_material(b.black_rooks) * 5
                          + bitboard_material(b.black_queens) * 9
    IN  white_material - black_material

\* evaluate_checkmate_or_stalemate
evaluate_checkmate_or_stalemate(b) ==
    IF is_in_check(b, b.side_to_move) THEN -I32Max ELSE 0

\* What a search routine that aborted leaves behind
search_aborted(b, overflow) ==
    [score |-> 0, board |-> b, panic |-> TRUE, overflow |-> overflow]

\* The move loop of minimax as it would be if it broke as soon as a score
\* reached alpha, whatever beta is
minimax_scored_break_on_alpha(acc, beta, b, score, overflow) ==
    [ board |-> b,
      best_score |-> Max(acc.best_score, score),
      alpha |-> Max(acc.alpha, score),
      cutoff |-> score >= acc.alpha,
      panic |-> FALSE,
      overflow |-> acc.overflow \/ overflow ]

\* The move loop of minimax after `score` has been computed for a move and
\* the move unmade, leaving board b: best_score and alpha are raised, and the
\* loop breaks when alpha >= beta
minimax_scored(acc, beta, b, score, overflow) ==
    [ board |-> b,
      best_score |-> Max(acc.best_score, score),
      alpha |-> Max(acc.alpha, score),
      cutoff |-> Max(acc.alpha, score) >= beta,
      panic |-> FALSE,
      overflow |-> acc.overflow \/ overflow ]

\* The move loop of minimax once the recursive call has returned `sub`
minimax_unmake(acc, beta, mv, made, sub) ==
    IF sub.panic \/ unmake_move_panics(mv)
    THEN [acc EXCEPT !.board = sub.board, !.panic = TRUE,
                     !.overflow = @ \/ made.overflow \/ sub.overflow]
    ELSE minimax_scored(acc, beta, unmake_move(sub.board, mv, made.undo),
                        -sub.score, made.overflow \/ sub.overflow)

\* minimax after its move loop: best_score is returned
minimax_returns(looped) ==
    [score |-> looped.best_score, board |-> looped.board,
     panic |-> looped.panic, overflow |-> looped.overflow]

\* minimax: the score, the board as the call leaves it, whether the call
\* aborted, and whether a counter overflowed on the way
RECURSIVE minimax(_, _, _, _)
RECURSIVE minimax_moves(_, _, _, _)
RECURSIVE minimax_loop(_, _, _, _, _, _)
RECURSIVE minimax_rest(_, _, _, _, _, _)
RECURSIVE minimax_made(_, _, _, _, _)
minimax(b, depth, alpha, beta) ==
    IF depth = 0
    THEN [score |-> evaluate(b), board |-> b, panic |-> FALSE, overflow |-> FALSE]
    ELSE minimax_moves(generate_legal_moves(b), depth, alpha, beta)

\* minimax once generate_legal_moves has returned
minimax_moves(gen, depth, alpha, beta) ==
    IF gen.panic \/ gen.board_state_changed
    THEN search_aborted(gen.board, gen.overflow)
    ELSE IF gen.moves = << >>
    THEN [score |-> evaluate_checkmate_or_stalemate(gen.board), board |-> gen.board,
          panic |-> FALSE, overflow |-> gen.overflow]
    ELSE minimax_returns(
             minimax_loop([board |-> gen.board, best_score |-> -I32Max,
                           alpha |-> alpha, cutoff |-> FALSE, panic |-> FALSE,
                           overflow |-> gen.overflow],
                          depth, beta, gen.moves, 1, Len(gen.moves)))

\* the `for mv in legal_moves` loop of minimax over moves lo..hi; a panic or
\* the beta cutoff ends the loop
minimax_loop(acc, depth, beta, legal_moves, lo, hi) ==
    IF lo > hi THEN acc
    ELSE IF lo = hi
    THEN minimax_made(acc, depth, beta, legal_moves[lo],
                      make_move(acc.board, legal_moves[lo]))
    ELSE minimax_rest(minimax_loop(acc, depth, beta, legal_moves, lo, (lo + hi) \div 2),
                      depth, beta, legal_moves, (lo + hi) \div 2 + 1, hi)

\* the loop over moves lo..hi after the ones before them
minimax_rest(first_half, depth, beta, legal_moves, lo, hi) ==
    IF first_half.panic \/ first_half.cutoff THEN first_half
    ELSE minimax_loop(first_half, depth, beta, legal_moves, lo, hi)

\* the loop body once make_move has returned `made`
minimax_made(acc, depth, beta, mv, made) ==
    IF made.panic
    THEN [acc EXCEPT !.board = made.board, !.panic = TRUE,
                     !.overflow = @ \/ made.overflow]
    ELSE minimax_unmake(acc, beta, mv, made,
                        minimax(made.board, depth - 1, -beta, -acc.alpha))

\* ScoredMove::new
ScoredMove(mv, score) == [mv |-> mv, score |-> score]

\* the loop body of depth_first_search without the call of unmake_move
depth_first_search_unmake_skipped(acc, mv, made, sub) ==
    IF sub.panic \/ unmake_move_panics(mv)
    THEN [acc EXCEPT !.board = sub.board, !.panic = TRUE,
                     !.overflow = @ \/ made.overflow \/ sub.overflow]
    ELSE [ scored_moves |-> Append(acc.scored_moves, ScoredMove(mv, -sub.score)),
           board |-> sub.board,
           panic |-> FALSE,
           overflow |-> acc.overflow \/ made.overflow \/ sub.overflow ]

\* the loop body of depth_first_search once minimax has returned `sub`
depth_first_search_unmake(acc, mv, made, sub) ==
    IF sub.panic \/ unmake_move_panics(mv)
    THEN [acc EXCEPT !.board = sub.board, !.panic = TRUE,
                     !.overflow = @ \/ made.overflow \/ sub.overflow]
    ELSE [ scored_moves |-> Append(acc.scored_moves, ScoredMove(mv, -sub.score)),
           board |-> unmake_move(sub.board, mv, made.undo),
           panic |-> FALSE,
           overflow |-> acc.overflow \/ made.overflow \/ sub.overflow ]

\* the loop body of depth_first_search once make_move has returned `made`
depth_first_search_made(acc, depth, mv, made) ==
    IF made.panic
    THEN [acc EXCEPT !.board = made.board, !.panic = TRUE,
                     !.overflow = @ \/ made.overflow]
    ELSE depth_first_search_unmake(acc, mv, made,
                                   minimax(made.board, depth - 1, -I32Max, I32Max))

\* the `for mv in legal_moves` loop of depth_first_search over moves lo..hi
RECURSIVE depth_first_search_loop(_, _, _, _, _)
RECURSIVE depth_first_search_rest(_, _, _, _, _)
depth_first_search_loop(acc, depth, legal_moves, lo, hi) ==
    IF lo > hi THEN acc
    ELSE IF lo = hi
    THEN depth_first_search_made(acc, depth, legal_moves[lo],
                                 make_move(acc.board, legal_moves[lo]))
    ELSE depth_first_search_rest(
             depth_first_search_loop(acc, depth, legal_moves, lo, (lo + hi) \div 2),
             depth, legal_moves, (lo + hi) \div 2 + 1, hi)

\* the loop over moves lo..hi after the ones before them
depth_first_search_rest(first_half, depth, legal_moves, lo, hi) ==
    IF first_half.panic THEN first_half
    ELSE depth_first_search_loop(first_half, depth, legal_moves, lo, hi)

\* depth_first_search once generate_legal_moves has returned
depth_first_search_moves(gen, depth) ==
    IF gen.panic \/ gen.board_state_changed
    THEN [scored_moves |-> << >>, board |-> gen.board, panic |-> TRUE,
          overflow |-> gen.overflow]
    ELSE depth_first_search_loop([scored_moves |-> << >>, board |-> gen.board,
                                  panic |-> FALSE, overflow |-> gen.overflow],
                                 depth, gen.moves, 1, Len(gen.moves))

\* depth_first_search: the scored root moves in the order of the legal move
\* list, the board as the call leaves it, and whether the call aborted
depth_first_search(b, depth) ==
    depth_first_search_moves(generate_legal_moves(b), depth)

\* search_moves without the sort: the moves stay in the order of generation
sort_by_score_unsorted(scored_moves) == scored_moves

\* Vec::sort_by(|a, b| b.score.cmp(&a.score)): a stable sort into descending
\* score; an element goes behind the ones with a greater score and the ones
\* with its own score that came before it
sort_by_score(scored_moves) ==
    LET n == Len(scored_moves)
        place(i) == 1 + Cardinality({ j \in 1..n :
                            \/ scored_moves[j].score > scored_moves[i].score
                            \/ /\ scored_moves[j].score = scored_moves[i].score
                               /\ j < i })
    IN  [k \in 1..n |-> scored_moves[CHOOSE i \in 1..n : place(i) = k]]

\* into_iter().take(n_moves).collect()
take(moves, n_moves) ==
    SubSeq(moves, 1, IF n_moves < Len(moves) THEN n_moves ELSE Len(moves))

\* One iteration of the `for depth in 1..=max_depth` loop of search_moves once
\* depth_first_search has returned `searched`
search_moves_iteration(acc, n_moves, searched) ==
    [ best_moves |-> IF ~searched.panic /\ searched.scored_moves # << >>
                     THEN take(sort_by_score(searched.scored_moves), n_moves)
                     ELSE acc.best_moves,
      board |-> searched.board,
      panic |-> searched.panic,
      overflow |-> acc.overflow \/ searched.overflow ]

\* search_moves from iteration `depth` on: the best moves, the board as the
\* call leaves it, and whether the call aborted
RECURSIVE search_moves_from(_, _, _, _)
search_moves_from(acc, n_moves, depth, max_depth) ==
    IF depth > max_depth \/ acc.panic THEN acc
    ELSE search_moves_from(
             search_moves_iteration(acc, n_moves, depth_first_search(acc.board, depth)),
             n_moves, depth + 1, max_depth)

\* search_moves
search_moves(b, n_moves, max_depth) ==
    search_moves_from([best_moves |-> << >>, board |-> b, panic |-> FALSE,
                       overflow |-> FALSE],
                      n_moves, 1, max_depth)

(***************************************************************************)
(* Position loading (set_pos).  A FEN string is modelled by its six        *)
(* whitespace-separated fields, each a sequence of one-character strings.  *)
(***************************************************************************)
Digits == {"0", "1", "2", "3", "4", "5", "6", "7", "8", "9"}

\* char::to_digit(10)
to_digit(c) ==
    CASE c = "0" -> 0 [] c = "1" -> 1 [] c = "2" -> 2 [] c = "3" -> 3 [] c = "4" -> 4
      [] c = "5" -> 5 [] c = "6" -> 6 [] c = "7" -> 7 [] c = "8" -> 8 [] c = "9" -> 9

\* `c as u8`, `c as i8`: the code of the characters the inputs are made of
as_u8(c) ==
    CASE c \in Digits -> 48 + to_digit(c)
      [] c = "+" -> 43 [] c = "-" -> 45 [] c = "A" -> 65 [] c = "W" -> 87
      [] c = "a" -> 97 [] c = "b" -> 98 [] c = "c" -> 99 [] c = "d" -> 100
      [] c = "e" -> 101 [] c = "f" -> 102 [] c = "g" -> 103 [] c = "h" -> 104
      [] c = "i" -> 105 [] c = "n" -> 110 [] c = "q" -> 113 [] c = "r" -> 114
      [] c = "x" -> 120 [] c = "z" -> 122

\* c as i8 - 'a' as i8, c as i8 - '1' as i8
file_index(c) == as_u8(c) - 97
rank_index(c) == as_u8(c) - 49

\* reset_board
reset_board ==
    [ white_pawns |-> {}, white_knights |-> {}, white_bishops |-> {},
      white_rooks |-> {}, white_queens |-> {}, white_king |-> {},
      black_pawns |-> {}, black_knights |-> {}, black_bishops |-> {},
      black_rooks |-> {}, black_queens |-> {}, black_king |-> {},
      en_passant      |-> None,
      castling_rights |-> 15,
      side_to_move    |-> WHITE,
      halfmove_clock  |-> 0,
      fullmove_number |-> 1 ]

\* set_pieces: one character of the piece-placement field
set_pieces_char(acc, c) ==
    LET square == acc.rank * 8 + acc.file
        b == acc.board
    IN  IF c = "/" THEN [acc EXCEPT !.rank = @ - 1, !.file = 0]
        ELSE IF c \in Digits THEN [acc EXCEPT !.file = @ + to_digit(c)]
        ELSE [acc EXCEPT
                !.file = @ + 1,
                !.board =
                    CASE c = "P" -> [b EXCEPT !.white_pawns = SetBit(@, square)]
                      [] c = "N" -> [b EXCEPT !.white_knights = SetBit(@, square)]
                      [] c = "B" -> [b EXCEPT !.white_bishops = SetBit(@, square)]
                      [] c = "R" -> [b EXCEPT !.white_rooks = SetBit(@, square)]
                      [] c = "Q" -> [b EXCEPT !.white_queens = SetBit(@, square)]
                      [] c = "K" -> [b EXCEPT !.white_king = SetBit(@, square)]
                      [] c = "p" -> [b EXCEPT !.black_pawns = SetBit(@, square)]
                      [] c = "n" -> [b EXCEPT !.black_knights = SetBit(@, square)]
                      [] c = "b" -> [b EXCEPT !.black_bishops = SetBit(@, square)]
                      [] c = "r" -> [b EXCEPT !.black_rooks = SetBit(@, square)]
                      [] c = "q" -> [b EXCEPT !.black_queens = SetBit(@, square)]
                      [] c = "k" -> [b EXCEPT !.black_king = SetBit(@, square)]
                      [] OTHER -> b,
                !.panic = c \notin {"P", "N", "B", "R", "Q", "K",
                                    "p", "n", "b", "r", "q", "k"}]

\* set_pieces: `for c in pieces.chars()` over characters lo..hi; a panic ends
\* the loop
RECURSIVE set_pieces(_, _, _, _)
RECURSIVE set_pieces_rest(_, _, _, _)
set_pieces(acc, pieces, lo, hi) ==
    IF lo > hi THEN acc
    ELSE IF lo = hi THEN set_pieces_char(acc, pieces[lo])
    ELSE set_pieces_rest(set_pieces(acc, pieces, lo, (lo + hi) \div 2),
                         pieces, (lo + hi) \div 2 + 1, hi)

\* set_pieces over characters lo..hi after the ones before them
set_pieces_rest(first_half, pieces, lo, hi) ==
    IF first_half.panic THEN first_half ELSE set_pieces(first_half, pieces, lo, hi)

\* set_castling_rights: `for c in rights.chars()` from character i on
RECURSIVE set_castling_rights(_, _, _)
set_castling_rights(rights_so_far, rights, i) ==
    IF i > Len(rights) THEN rights_so_far
    ELSE LET c == rights[i]
             bit == CASE c = "K" -> 1 [] c = "Q" -> 2 [] c = "k" -> 4 [] c = "q" -> 8
             has == (rights_so_far \div bit) % 2 = 1
         IN  IF c = "-" THEN rights_so_far
             ELSE set_castling_rights(IF has THEN rights_so_far ELSE rights_so_far + bit,
                                      rights, i + 1)

\* set_en_passant
set_en_passant(square) ==
    IF square = << "-" >> THEN None
    ELSE Some(AsU8(rank_index(square[2]) * 8 + file_index(square[1])))

\* str::parse of a decimal field: the digits' value, leftmost first
RECURSIVE parse_decimal(_, _)
parse_decimal(field, n) ==
    IF n = 0 THEN 0 ELSE 10 * parse_decimal(field, n - 1) + to_digit(field[n])

\* str::parse::<u8 / u16>().unwrap_or(default): an optional plus sign and at
\* least one digit, nothing else, and a value below the limit of the type
parse_unwrap_or(field, limit, default) ==
    LET digits == IF field # << >> /\ field[1] = "+" THEN Tail(field) ELSE field
    IN  IF /\ digits # << >>
           /\ \A i \in 1..Len(digits) : digits[i] \in Digits
           /\ parse_decimal(digits, Len(digits)) < limit
        THEN parse_decimal(digits, Len(digits))
        ELSE default

\* set_castling_rights panics: a character other than K, Q, k, q comes before
\* any '-'
set_castling_rights_panics(rights) ==
    \E i \in 1..Len(rights) :
        /\ rights[i] \notin {"K", "Q", "k", "q", "-"}
        /\ \A j \in 1..(i - 1) : rights[j] # "-"

\* set_en_passant panics: chars().nth(1).unwrap() on a field of one character
set_en_passant_panics(square) == square # << "-" >> /\ Len(square) < 2

\* set_en_passant overflows: rank * 8 + file leaves the range of i8
set_en_passant_overflows(square) ==
    /\ square # << "-" >> /\ Len(square) >= 2
    /\ \/ rank_index(square[2]) * 8 \notin -128..127
       \/ rank_index(square[2]) * 8 + file_index(square[1]) \notin -128..127

\* set_pos on the six fields of a FEN: the board it leaves when it returns
set_pos(fen) ==
    LET placed == set_pieces([board |-> reset_board, rank |-> 7, file |-> 0,
                              panic |-> FALSE],
                             fen.pieces, 1, Len(fen.pieces)).board
    IN  [placed EXCEPT
            !.side_to_move = IF fen.side = "w" THEN WHITE ELSE BLACK,
            !.castling_rights = set_castling_rights(0, fen.castling, 1),
            !.en_passant = set_en_passant(fen.en_passant),
            !.halfmove_clock = parse_unwrap_or(fen.halfmove, 256, 0),
            !.fullmove_number = parse_unwrap_or(fen.fullmove, 65536, 1)]

\* set_pos on the six fields of a FEN panics, in set_pieces,
\* set_castling_rights or set_en_passant
set_pos_panics(fen) ==
    \/ set_pieces([board |-> reset_board, rank |-> 7, file |-> 0, panic |-> FALSE],
                  fen.pieces, 1, Len(fen.pieces)).panic
    \/ set_castling_rights_panics(fen.castling)
    \/ set_en_passant_panics(fen.en_passant)

\* set_pos on the whitespace-separated parts of a FEN string
six_fields(parts) ==
    [ pieces |-> parts[1], side |-> parts[2], castling |-> parts[3],
      en_passant |-> parts[4], halfmove |-> parts[5], fullmove |-> parts[6] ]

(***************************************************************************)
(* Start positions.                                                        *)
(***************************************************************************)
\* The rook-and-pawn ending of the perft corpus (every en-passant capture in it
\* uncovers a rank attack on the capturing side's king)
\*   8/2p5/3p4/KP5r/1R3p1k/8/4P1P1/8 w - - 0 1
FenPosition3 ==
    [ pieces     |-> << "8", "/", "2", "p", "5", "/", "3", "p", "4", "/", "K", "P", "5", "r", "/", "1", "R",
                     "3", "p", "1", "k", "/", "8", "/", "4", "P", "1", "P", "1", "/",
                     "8" >>,
      side       |-> "w",
      castling   |-> << "-" >>,
      en_passant |-> << "-" >>,
      halfmove   |-> << "0" >>,
      fullmove   |-> << "1" >> ]

\* A pawn one step from promotion
\*   8/P7/8/8/8/8/8/k6K w - - 0 1
FenPromotion ==
    [ pieces     |-> << "8", "/", "P", "7", "/", "8", "/", "8", "/", "8", "/", "8", "/", "8", "/", "k", "6",
                     "K" >>,
      side       |-> "w",
      castling   |-> << "-" >>,
      en_passant |-> << "-" >>,
      halfmove   |-> << "0" >>,
      fullmove   |-> << "1" >> ]

\* Pawns that can promote by a push or by capturing a rook
\*   1r5k/P7/8/8/8/8/7p/K5R1 w - - 4 40
FenPromotionCapture ==
    [ pieces     |-> << "1", "r", "5", "k", "/", "P", "7", "/", "8", "/", "8", "/", "8", "/", "8", "/", "7",
                     "p", "/", "K", "5", "R", "1" >>,
      side       |-> "w",
      castling   |-> << "-" >>,
      en_passant |-> << "-" >>,
      halfmove   |-> << "4" >>,
      fullmove   |-> << "4", "0" >> ]

\* Both sides hold both castling rights; the bishop on a6 attacks f1, the
\* knight on e4 can give check, and the pawn on b4 can capture en passant
\* after a2a4
\*   r3k2r/p6p/b7/8/1p2N3/8/P6P/R3K2R w KQkq - 2 20
FenCastling ==
    [ pieces     |-> << "r", "3", "k", "2", "r", "/", "p", "6", "p", "/", "b", "7", "/", "8", "/", "1", "p",
                     "2", "N", "3", "/", "8", "/", "P", "6", "P", "/", "R", "3", "K", "2", "R" >>,
      side       |-> "w",
      castling   |-> << "K", "Q", "k", "q" >>,
      en_passant |-> << "-" >>,
      halfmove   |-> << "2" >>,
      fullmove   |-> << "2", "0" >> ]

\* The same pieces with Black to move, White holding only the king-side right
\* and Black only the queen-side right
\*   r3k2r/p6p/b7/8/1p2N3/8/P6P/R3K2R b Kq - 2 20
FenCastlingBlack ==
    [FenCastling EXCEPT !.side = "b", !.castling = << "K", "q" >>]

\* A king-and-pawn ending late in a long game: the halfmove clock and the
\* fullmove number are one step from the top of their ranges
\*   7k/8/8/8/8/8/P7/K7 b - - 254 65535
FenLongGame ==
    [ pieces     |-> << "7", "k", "/", "8", "/", "8", "/", "8", "/", "8", "/", "8", "/",
                        "P", "7", "/", "K", "7" >>,
      side       |-> "b",
      castling   |-> << "-" >>,
      en_passant |-> << "-" >>,
      halfmove   |-> << "2", "5", "4" >>,
      fullmove   |-> << "6", "5", "5", "3", "5" >> ]

\* The white king in the corner a1, a black bishop in the opposite corner h8
\* behind its own pawn on g7, and the diagonal h1-a8 empty
\*   3k3b/6p1/8/8/8/8/P7/K7 w - - 0 1
FenCornerBishop ==
    [ pieces     |-> << "3", "k", "3", "b", "/", "6", "p", "1", "/", "8", "/", "8", "/", "8", "/", "8", "/",
                        "P", "7", "/", "K", "7" >>,
      side       |-> "w",
      castling   |-> << "-" >>,
      en_passant |-> << "-" >>,
      halfmove   |-> << "0" >>,
      fullmove   |-> << "1" >> ]

\* Kiwipete, the second position of the perft corpus
\*   r3k2r/p1ppqpb1/bn2pnp1/3PN3/1p2P3/2N2Q1p/PPPBBPPP/R3K2R w KQkq - 0 1
FenKiwipete ==
    [ pieces     |-> << "r", "3", "k", "2", "r", "/", "p", "1", "p", "p", "q", "p", "b", "1", "/", "b", "n",
                     "2", "p", "n", "p", "1", "/", "3", "P", "N", "3", "/", "1", "p",
                     "2", "P", "3", "/", "2", "N", "2", "Q", "1", "p", "/", "P", "P",
                     "P", "B", "B", "P", "P", "P", "/", "R", "3", "K", "2", "R" >>,
      side       |-> "w",
      castling   |-> << "K", "Q", "k", "q" >>,
      en_passant |-> << "-" >>,
      halfmove   |-> << "0" >>,
      fullmove   |-> << "1" >> ]

(***************************************************************************)
(* The engine as a state machine: one Board, driven by a caller that       *)
(* generates the legal moves, makes one of them, and later unmakes it      *)
(* (main.rs's game loop; the loops of depth_first_search, minimax and      *)
(* perft_helper).                                                          *)
(***************************************************************************)
VARIABLES
    board,        \* the Board
    legal_moves,  \* the caller's Vec<Move> from its last generate_legal_moves
    fresh,        \* whether legal_moves was generated for the current board
    history,      \* the moves made and not yet unmade, innermost last, each
                  \* with its UndoState and the caller's state at the call
    last,         \* the last operation, with the board it started from
    panicked,     \* "no", or why the program has aborted
    build,        \* whether the build checks arithmetic overflow: "checked",
                  \* "unchecked", or "any" while no counter has overflowed
    workers       \* the items of a parallel root search under way, one for
                  \* each root move, each with the state of its closure

vars == << board, legal_moves, fresh, history, last, panicked, build, workers >>

\* The caller's search depth, the `depth` of perft_helper, minimax and
\* depth_first_search: with MaxPly moves made and not yet unmade the caller is
\* at depth 0, where it neither generates nor makes a move
MaxPly == 2

StartPositions ==
    { NewBoard, set_pos(FenPosition3), set_pos(FenPromotion),
      set_pos(FenPromotionCapture), set_pos(FenCastling), set_pos(FenLongGame),
      set_pos(FenCastlingBlack), set_pos(FenCornerBishop) }

\* What a move does on board b
MoveKind(b, mv) ==
    IF mv.piece_type = "King" /\ Abs(mv.from - mv.to) = 2 THEN "castling"
    ELSE IF mv.piece_type = "Pawn" /\ b.en_passant = Some(mv.to) THEN "en_passant"
    ELSE IF mv.promotion # None
    THEN (IF is_occupied(b, mv.to) THEN "promotion_capture" ELSE "promotion")
    ELSE IF is_occupied(b, mv.to) THEN "capture"
    ELSE "quiet"

Init ==
    /\ board \in StartPositions
    /\ legal_moves = << >>
    /\ fresh = FALSE
    /\ history = << >>
    /\ last = [op |-> "new", kind |-> "none", mv |-> None, snapshot |-> board]
    /\ panicked = "no"
    /\ build = "any"
    /\ workers = << >>

\* The program aborts inside operation op
Abort(op, cause) ==
    /\ panicked' = cause
    /\ last' = [op |-> op, kind |-> "none", mv |-> None, snapshot |-> board]
    /\ UNCHANGED << board, legal_moves, fresh, history, workers >>

\* The builds an operation can be running in: the one already observed, else
\* either one when a counter overflows in it
Builds(overflow) ==
    IF overflow /\ build = "any" THEN {"checked", "unchecked"} ELSE {build}

\* let legal_moves = board.generate_legal_moves();
GenerateLegalMoves ==
    /\ panicked = "no"
    /\ ~fresh
    /\ Len(history) < MaxPly
    /\ \E gen \in {generate_legal_moves(board)} :
           \E profile \in Builds(gen.overflow) :
             /\ build' = profile
             /\ IF gen.overflow /\ profile = "checked"
                THEN Abort("generate_legal_moves", "attempt to add with overflow")
                ELSE IF gen.panic
                THEN Abort("generate_legal_moves", "panic")
                ELSE IF gen.board_state_changed
                THEN Abort("generate_legal_moves",
                           "Board state changed after generate_legal_moves")
                ELSE /\ board' = gen.board
                     /\ legal_moves' = gen.moves
                     /\ fresh' = TRUE
                     /\ last' = [op |-> "generate_legal_moves", kind |-> "none",
                                 mv |-> None, snapshot |-> board]
                     /\ UNCHANGED << history, panicked, workers >>

\* let undo = board.make_move(legal_moves[i]);
MakeMove(i) ==
    /\ panicked = "no"
    /\ fresh
    /\ Len(history) < MaxPly
    /\ \E mv \in {legal_moves[i]} :
         \E made \in {make_move(board, mv)} :
           \E profile \in Builds(made.overflow) :
             /\ build' = profile
             /\ IF made.overflow /\ profile = "checked"
                THEN Abort("make_move", "attempt to add with overflow")
                ELSE IF made.panic
                THEN Abort("make_move", "panic")
                ELSE /\ board' = made.board
                     /\ history' = Append(history, [mv |-> mv, undo |-> made.undo,
                                                    kind |-> MoveKind(board, mv),
                                                    before |-> board,
                                                    legal_moves |-> legal_moves])
                     /\ last' = [op |-> "make_move", kind |-> MoveKind(board, mv),
                                 mv |-> Some(mv), snapshot |-> board]
                     /\ legal_moves' = << >>
                     /\ fresh' = FALSE
                     /\ UNCHANGED << panicked, workers >>

\* board.unmake_move(mv, undo); for the innermost move not yet unmade, the
\* caller being back in the loop over its own legal_moves
UnmakeMove ==
    /\ panicked = "no"
    /\ history # << >>
    /\ LET frame == history[Len(history)]
       IN  IF unmake_move_panics(frame.mv)
           THEN Abort("unmake_move", "panic") /\ UNCHANGED build
           ELSE /\ board' = unmake_move(board, frame.mv, frame.undo)
                /\ legal_moves' = frame.legal_moves
                /\ fresh' = TRUE
                /\ last' = [op |-> "unmake_move", kind |-> frame.kind, mv |-> None,
                            snapshot |-> frame.before]
                /\ history' = SubSeq(history, 1, Len(history) - 1)
                /\ UNCHANGED << panicked, build, workers >>

Next ==
    \/ GenerateLegalMoves
    \/ \E i \in 1..Len(legal_moves) : MakeMove(i)
    \/ UnmakeMove

Spec == Init /\ [][Next]_vars

\* The caller is about to call generate_legal_moves on the board
AtGenerate == panicked = "no" /\ ~fresh /\ Len(history) < MaxPly

(***************************************************************************)
(* Make / unmake                                                           *)
(***************************************************************************)

\* make_move(mv) followed at once by unmake_move(mv, undo) on board b
make_unmake(b, mv) ==
    LET made == make_move(b, mv)
    IN  unmake_move(made.board, mv, made.undo)

\* C1: for every reachable board and every move generate_legal_moves returns
\* for it, make_move followed by unmake_move with the returned undo record
\* gives back the same board in every field (the twelve bitboards, the side to
\* move, the castling rights, the en-passant target and the two counters); and
\* whenever the caller has unmade a move, whatever it generated, made and
\* unmade in between, the board is the one it had before making that move.
MakeUnmakeRestoresBoard ==
    /\ AtGenerate =>
          LET moves == generate_legal_moves(board).moves
          IN  \A i \in 1..Len(moves) : make_unmake(board, moves[i]) = board
    /\ last.op = "unmake_move" => board = last.snapshot

\* An en-passant capture has been made and unmade
EnPassantCaptureUnmade ==
    /\ last.op = "unmake_move" /\ last.kind = "en_passant"
    /\ board.en_passant # None
    /\ board = last.snapshot

\* Each other kind of move has been made and unmade
CaptureUnmade == last.op = "unmake_move" /\ last.kind = "capture"
CastlingUnmade == last.op = "unmake_move" /\ last.kind = "castling"
PromotionUnmade == last.op = "unmake_move" /\ last.kind = "promotion"
PromotionCaptureUnmade == last.op = "unmake_move" /\ last.kind = "promotion_capture"

(***************************************************************************)
(* King safety under the rules of chess                                    *)
(***************************************************************************)

Sign(x) == IF x > 0 THEN 1 ELSE IF x < 0 THEN -1 ELSE 0

\* The squares strictly between two squares of one rank, file or diagonal
squares_between(from, to) ==
    LET rank_delta == get_rank(to) - get_rank(from)
        file_delta == get_file(to) - get_file(from)
        distance == IF Abs(rank_delta) > Abs(file_delta)
                    THEN Abs(rank_delta) ELSE Abs(file_delta)
        step == 8 * Sign(rank_delta) + Sign(file_delta)
    IN  { from + k * step : k \in 1..(distance - 1) }

\* The squares holding a piece of the given type and side
pieces_of(b, side, piece_type) ==
    own_bitboard([b EXCEPT !.side_to_move = side], piece_type)

\* Under the rules of chess, the piece of the given type and side standing on
\* `from` attacks the square `to`
chess_attacks(b, side, piece_type, from, to) ==
    LET rank_delta == get_rank(to) - get_rank(from)
        file_delta == get_file(to) - get_file(from)
        on_diagonal == Abs(rank_delta) = Abs(file_delta) /\ rank_delta # 0
        on_line == (rank_delta = 0) # (file_delta = 0)
        clear == \A s \in squares_between(from, to) : ~is_occupied(b, s)
    IN  CASE piece_type = "Pawn" ->
                 /\ rank_delta = (IF side = WHITE THEN 1 ELSE -1)
                 /\ Abs(file_delta) = 1
          [] piece_type = "Knight" ->
                 { Abs(rank_delta), Abs(file_delta) } = {1, 2}
          [] piece_type = "Bishop" -> on_diagonal /\ clear
          [] piece_type = "Rook" -> on_line /\ clear
          [] piece_type = "Queen" -> (on_diagonal \/ on_line) /\ clear
          [] piece_type = "King" ->
                 /\ Abs(rank_delta) <= 1 /\ Abs(file_delta) <= 1
                 /\ from # to

\* Under the rules of chess, some piece of by_side attacks the square
chess_attacked(b, square, by_side) ==
    \E piece_type \in PieceTypes :
        \E from \in pieces_of(b, by_side, piece_type) :
            chess_attacks(b, by_side, piece_type, from, square)

\* Under the rules of chess, the king of `side` is attacked
chess_king_attacked(b, side) ==
    \E king \in pieces_of(b, side, "King") : chess_attacked(b, king, ~side)

\* The candidates of generate_legal_moves after which the mover's king is not
\* attacked under the rules of chess, in the order of generation
king_safe_candidates(b) ==
    LET king_safe(mv) == ~chess_king_attacked(make_move(b, mv).board, b.side_to_move)
    IN  SelectSeq(pseudo_legal_moves(b), king_safe)

\* generate_legal_moves has just returned to the caller
Generated == last.op = "generate_legal_moves" /\ panicked = "no"

\* C2: whenever generate_legal_moves has returned, the list it returned is
\* exactly the list of its pseudo-legal candidates after which the mover's own
\* king is not attacked by any enemy piece under the rules of chess: no
\* returned move leaves the king attacked, and no candidate that leaves the
\* king un-attacked is dropped.
LegalMovesAreKingSafeCandidates ==
    Generated => legal_moves = king_safe_candidates(board)

(***************************************************************************)
(* generate_legal_moves and the board                                      *)
(***************************************************************************)

\* C3: generate_legal_moves leaves the board unchanged: the assertion that
\* compares the board with the snapshot taken at entry never fires, and
\* whenever the call has returned the board equals, in every field, the board
\* the caller passed in.
GenerateLegalMovesLeavesBoardUnchanged ==
    /\ panicked # "Board state changed after generate_legal_moves"
    /\ Generated => board = last.snapshot

\* generate_legal_moves has returned after making and unmaking candidates of
\* which it kept some and pruned others
GeneratedWithPrunedCandidates ==
    /\ Generated
    /\ history # << >>
    /\ board = last.snapshot
    /\ legal_moves # << >>
    /\ Len(legal_moves) < Len(pseudo_legal_moves(board))

(***************************************************************************)
(* Invariants of the board                                                 *)
(***************************************************************************)

\* The twelve piece bitboards of a board
bitboards(b) ==
    << b.white_pawns, b.white_knights, b.white_bishops, b.white_rooks,
       b.white_queens, b.white_king, b.black_pawns, b.black_knights,
       b.black_bishops, b.black_rooks, b.black_queens, b.black_king >>

\* make_move has just returned to the caller
Made == last.op = "make_move" /\ panicked = "no"

\* C4: in every state reached by make_move on moves from generate_legal_moves,
\* matching unmake_move calls and generate_legal_moves calls, no square has
\* its bit set in more than one of the twelve piece bitboards.
BitboardsDisjoint ==
    \A i, j \in 1..12 :
        i # j => bitboards(board)[i] \cap bitboards(board)[j] = {}

\* A capture has been made: the capturing piece stands where the captured one
\* stood
CaptureMade ==
    /\ Made
    /\ last.kind \in {"capture", "promotion_capture"}
    /\ \E mv \in last.mv :
          /\ is_occupied_by_opponent(last.snapshot, mv.to, last.snapshot.side_to_move)
          /\ is_occupied_by_side(board, mv.to, last.snapshot.side_to_move)

\* C5: in every state reached by legal moves and their unmakes, the white king
\* bitboard and the black king bitboard each contain exactly one set bit.
OneKingEach ==
    /\ Cardinality(board.white_king) = 1
    /\ Cardinality(board.black_king) = 1

\* A king has been moved, capturing a piece
KingMadeCapture ==
    /\ Made
    /\ last.kind = "capture"
    /\ \E mv \in last.mv : mv.piece_type = "King"

\* C6: in every reachable state, if the en-passant target is set then either
\* Black is to move, the target is on rank 3 (squares 16..23) and a white pawn
\* stands on target + 8, or White is to move, the target is on rank 6 (squares
\* 40..47) and a black pawn stands on target - 8; and the target square is
\* empty.
EnPassantTargetBehindPawn ==
    \A target \in board.en_passant :
        /\ \/ /\ board.side_to_move = BLACK
              /\ target \in 16..23
              /\ (target + 8) \in board.white_pawns
           \/ /\ board.side_to_move = WHITE
              /\ target \in 40..47
              /\ (target - 8) \in board.black_pawns
        /\ ~is_occupied(board, target)

\* A black pawn has made a double push, White is to move
BlackDoublePushMade ==
    /\ Made
    /\ board.side_to_move = WHITE
    /\ board.en_passant # None

\* The castling-right bits of nibble `after` are among those of `before`
rights_within(after, before) == BitAnd(after, before) = after

\* C7: a make_move never sets a castling-right bit that was clear before it,
\* so along any sequence of make_move calls with no unmake_move in between
\* the set of right bits only shrinks; and unmake_move restores the nibble
\* recorded in the undo record verbatim.
CastlingRightsOnlyShrink ==
    /\ [](\A k \in 1..Len(history) :
             rights_within(board.castling_rights, history[k].before.castling_rights))
    /\ [][ /\ Len(history') > Len(history) =>
                rights_within(board'.castling_rights, board.castling_rights)
           /\ Len(history') < Len(history) =>
                board'.castling_rights = history[Len(history)].undo.castling_rights
         ]_vars

\* A move that cost the mover castling rights has been made and unmade, and
\* the rights are back
CastlingRightsRestored ==
    /\ last.op = "unmake_move"
    /\ last.kind = "castling"
    /\ board.castling_rights = 15

(***************************************************************************)
(* Castling                                                                *)
(***************************************************************************)

\* The four castling moves: the king's destination, the right bit, the
\* squares between king and rook, and the two squares the king traverses
Castlings ==
    { [side |-> WHITE, to |-> 6, right |-> 1, between |-> {5, 6}, traversed |-> {5, 6}],
      [side |-> WHITE, to |-> 2, right |-> 2, between |-> {1, 2, 3}, traversed |-> {3, 2}],
      [side |-> BLACK, to |-> 62, right |-> 4, between |-> {61, 62}, traversed |-> {61, 62}],
      [side |-> BLACK, to |-> 58, right |-> 8, between |-> {57, 58, 59}, traversed |-> {59, 58}] }

\* The castling move to the given destination is in the list
castling_listed(moves, to) ==
    \E i \in 1..Len(moves) :
        /\ moves[i].piece_type = "King"
        /\ moves[i].to = to
        /\ Abs(moves[i].from - moves[i].to) = 2

\* The four preconditions of a castling move, attacks taken under the rules of
\* chess
castling_preconditions(b, castling) ==
    /\ BitAnd(b.castling_rights, castling.right) # 0
    /\ \A square \in castling.between : ~is_occupied(b, square)
    /\ ~chess_king_attacked(b, castling.side)
    /\ \A square \in castling.traversed : ~chess_attacked(b, square, ~castling.side)

\* C9: whenever generate_legal_moves has returned, the list holds the mover's
\* castling move to 6, 2, 62 or 58 if and only if the corresponding right bit
\* is set, the squares strictly between king and rook are empty, the mover's
\* king is not attacked, and neither of the two squares the king traverses,
\* destination included, is attacked by an enemy piece.
CastlingListedIffPreconditions ==
    Generated =>
        \A castling \in Castlings :
            castling.side = board.side_to_move =>
                (castling_listed(legal_moves, castling.to)
                    <=> castling_preconditions(board, castling))

\* White may castle on both sides but for a black bishop attacking f1: the
\* path is empty, the king is not attacked, the list holds the queen-side
\* castling and not the king-side one
KingSideCastlingThroughBishopAttack ==
    /\ Generated
    /\ board.side_to_move = WHITE
    /\ BitAnd(board.castling_rights, 3) = 3
    /\ ~is_occupied(board, 5) /\ ~is_occupied(board, 6)
    /\ ~chess_king_attacked(board, WHITE)
    /\ \E from \in board.black_bishops : chess_attacks(board, BLACK, "Bishop", from, 5)
    /\ castling_listed(legal_moves, 2)
    /\ ~castling_listed(legal_moves, 6)

(***************************************************************************)
(* Promotion                                                               *)
(***************************************************************************)

\* The squares of the rank on which a pawn of the side promotes
last_rank(side) == IF side = WHITE THEN 56..63 ELSE 0..7

\* Under the rules of chess, the mover's pawn on `from` can move to `to` by a
\* single push or by a capture
pawn_can_reach(b, from, to) ==
    /\ get_rank(to) - get_rank(from) = (IF b.side_to_move = WHITE THEN 1 ELSE -1)
    /\ \/ get_file(to) = get_file(from) /\ ~is_occupied(b, to)
       \/ /\ Abs(get_file(to) - get_file(from)) = 1
          /\ is_occupied_by_opponent(b, to, b.side_to_move)

\* The pawn moves of a list that go from `from` to `to`
pawn_moves_between(moves, from, to) ==
    LET between(mv) == mv.piece_type = "Pawn" /\ mv.from = from /\ mv.to = to
    IN  SelectSeq(moves, between)

\* The list holds, from `from` to `to`, exactly four moves: the promotions to
\* queen, rook, bishop and knight
four_promotions(moves, from, to) ==
    LET found == pawn_moves_between(moves, from, to)
    IN  /\ Len(found) = 4
        /\ { found[i].promotion : i \in 1..4 }
               = { Some("Queen"), Some("Rook"), Some("Bishop"), Some("Knight") }

\* No pawn move of the list reaches the last rank without a promotion
no_unpromoted_arrival(moves, side) ==
    \A i \in 1..Len(moves) :
        (moves[i].piece_type = "Pawn" /\ moves[i].to \in last_rank(side))
            => moves[i].promotion # None

\* C10: whenever a pawn of the mover can move, by push or capture, to a square
\* of the last rank, generate_pawn_moves emits exactly four moves for that
\* from/to pair, promoting to queen, rook, bishop and knight, and none
\* otherwise; no list, generated or returned as legal, holds a pawn move to
\* the last rank without promotion, and the legal list holds all four
\* promotions of a pair or none of them; after make_move of a promotion the
\* destination holds the promoted piece of the mover's side and no pawn; and
\* from 8/P7/8/8/8/8/8/k6K w - - 0 1 the legal moves from a7 are exactly the
\* four promotions to a8.
PromotionsComeInFours ==
    /\ Generated =>
          LET side == board.side_to_move
              candidates == generate_pawn_moves(board)
          IN  /\ \A from \in pieces_of(board, side, "Pawn"), to \in last_rank(side) :
                    /\ IF pawn_can_reach(board, from, to)
                       THEN four_promotions(candidates, from, to)
                       ELSE pawn_moves_between(candidates, from, to) = << >>
                    /\ \/ four_promotions(legal_moves, from, to)
                       \/ pawn_moves_between(legal_moves, from, to) = << >>
              /\ no_unpromoted_arrival(candidates, side)
              /\ no_unpromoted_arrival(legal_moves, side)
              /\ board = set_pos(FenPromotion) =>
                    /\ four_promotions(legal_moves, 48, 56)
                    /\ \A i \in 1..Len(legal_moves) :
                          legal_moves[i].from = 48 => legal_moves[i].to = 56
    /\ Made =>
          \A mv \in last.mv : \A promotion \in mv.promotion :
              /\ mv.to \in pieces_of(board, last.snapshot.side_to_move, promotion)
              /\ mv.to \notin board.white_pawns \cup board.black_pawns

\* A pawn has captured onto the last rank and become a knight
UnderpromotionByCaptureMade ==
    /\ Made
    /\ last.kind = "promotion_capture"
    /\ \E mv \in last.mv :
          /\ mv.promotion = Some("Knight")
          /\ mv.to \in pieces_of(board, last.snapshot.side_to_move, "Knight")

(***************************************************************************)
(* Perft                                                                   *)
(***************************************************************************)

\* perft: the "Total nodes" it prints, the sum over the top-level legal moves
\* of perft_helper(depth - 1)
perft(b, depth) == perft_moves(generate_legal_moves(b), depth).nodes

\* C8: the perft leaf counts match the published reference values: the
\* initial position at depths 1..5, Kiwipete at depths 1..3 and position 3 at
\* depths 1..3.
PerftMatchesReference ==
    /\ << perft(NewBoard, 1), perft(NewBoard, 2), perft(NewBoard, 3),
          perft(NewBoard, 4), perft(NewBoard, 5) >>
           = << 20, 400, 8902, 197281, 4865609 >>
    /\ << perft(set_pos(FenKiwipete), 1), perft(set_pos(FenKiwipete), 2),
          perft(set_pos(FenKiwipete), 3) >>
           = << 48, 2039, 97862 >>
    /\ << perft(set_pos(FenPosition3), 1), perft(set_pos(FenPosition3), 2),
          perft(set_pos(FenPosition3), 3) >>
           = << 14, 191, 2812 >>

(***************************************************************************)
(* The opening 1. e4 e5                                                    *)
(***************************************************************************)

E2E4 == Move(12, 28, "Pawn", None)
E7E5 == Move(52, 36, "Pawn", None)

\* e2e4 has been made on the initial position
AfterE2E4 ==
    /\ Made
    /\ Len(history) = 1
    /\ history[1].before = NewBoard
    /\ history[1].mv = E2E4

\* e2e4 and then e7e5 have been made on the initial position
AfterE2E4E7E5 ==
    /\ Made
    /\ Len(history) = 2
    /\ history[1].before = NewBoard
    /\ history[1].mv = E2E4
    /\ history[2].mv = E7E5

\* The legal move list of the initial position has e2e4, and making it
\* leaves the en-passant target on e3
E2E4SetsTargetE3 ==
    /\ (Generated /\ history = << >> /\ board = NewBoard)
           => (\E i \in 1..Len(legal_moves) : legal_moves[i] = E2E4)
    /\ AfterE2E4 => board.en_passant = Some(20)

\* C11, as the code has it: from the initial position e2e4 is in the legal
\* move list and after make_move(e2e4) the en-passant target is e3 (square
\* 20); after then making e7e5 the target e3 is gone and the target is e6
\* (square 44), the square the black pawn passed over.
OpeningSetsTargetsE3ThenE6 ==
    /\ E2E4SetsTargetE3
    /\ AfterE2E4E7E5 => board.en_passant = Some(44)

\* C11, as stated: ... after then making e7e5 the en-passant target is
\* cleared and none is set.
OpeningSetsTargetE3ThenNone ==
    /\ E2E4SetsTargetE3
    /\ AfterE2E4E7E5 => board.en_passant = None

\* 1. e4 e5 has been played and the side to move, White, is offered the
\* target e6 although no white pawn can take there
E7E5MadeAfterE2E4 ==
    /\ AfterE2E4E7E5
    /\ history[2].before.en_passant = Some(20)
    /\ board.en_passant # None

(***************************************************************************)
(* The search routines applied by a caller: between its own moves the      *)
(* caller of the walk above calls minimax, search_moves or perft on the    *)
(* position it has reached.                                                *)
(***************************************************************************)
\* The stalemate of the test list: Black to move has no legal move and is
\* not in check
\*   7k/5Q2/6K1/8/8/8/8/8 b - - 0 1
FenStalemate ==
    [ pieces     |-> << "7", "k", "/", "5", "Q", "2", "/", "6", "K", "1", "/", "8", "/", "8", "/", "8", "/", "8", "/", "8" >>,
      side       |-> "b",
      castling   |-> << "-" >>,
      en_passant |-> << "-" >>,
      halfmove   |-> << "0" >>,
      fullmove   |-> << "1" >> ]

\* White mates with the pawn, g6-g7
\*   7k/5K1p/6P1/8/8/8/8/8 w - - 0 1
FenMateInOne ==
    [ pieces     |-> << "7", "k", "/", "5", "K", "1", "p", "/", "6", "P", "1", "/", "8", "/", "8", "/", "8", "/", "8", "/", "8" >>,
      side       |-> "w",
      castling   |-> << "-" >>,
      en_passant |-> << "-" >>,
      halfmove   |-> << "0" >>,
      fullmove   |-> << "1" >> ]

\* Black to move is checkmated by the pawn on g7
\*   7k/5KPp/8/8/8/8/8/8 b - - 0 1
FenMated ==
    [ pieces     |-> << "7", "k", "/", "5", "K", "P", "p", "/", "8", "/", "8", "/", "8", "/", "8", "/", "8", "/", "8" >>,
      side       |-> "b",
      castling   |-> << "-" >>,
      en_passant |-> << "-" >>,
      halfmove   |-> << "0" >>,
      fullmove   |-> << "1" >> ]

\* White to move can take the knight on d5 with the pawn; until then Black
\* is a knight for a pawn up
\*   7k/8/8/3n4/4P3/8/8/1K6 w - - 0 1
FenHangingKnight ==
    [ pieces     |-> << "7", "k", "/", "8", "/", "8", "/", "3", "n", "4", "/", "4", "P", "3", "/", "8", "/", "8", "/", "1", "K", "6" >>,
      side       |-> "w",
      castling   |-> << "-" >>,
      en_passant |-> << "-" >>,
      halfmove   |-> << "0" >>,
      fullmove   |-> << "1" >> ]

\* The largest `depth` and `n_moves` the caller passes
MaxDepth == 2
MaxMoves == 2

SearchPositions ==
    { set_pos(FenStalemate), set_pos(FenMateInOne), set_pos(FenMated),
      set_pos(FenHangingKnight), set_pos(FenPromotion), set_pos(FenLongGame),
      set_pos(FenCornerBishop) }

SearchInit ==
    /\ board \in SearchPositions
    /\ legal_moves = << >>
    /\ fresh = FALSE
    /\ history = << >>
    /\ last = [op |-> "new", kind |-> "none", mv |-> None, snapshot |-> board]
    /\ panicked = "no"
    /\ build = "any"
    /\ workers = << >>

\* A search routine called on the board ends: it aborts, or it returns and
\* `returned` records the call
SearchEnds(op, result, returned) ==
    \E profile \in Builds(result.overflow) :
        /\ build' = profile
        /\ IF result.overflow /\ profile = "checked"
           THEN Abort(op, "attempt to add with overflow")
           ELSE IF result.panic
           THEN Abort(op, "panic")
           ELSE /\ board' = result.board
                /\ last' = returned
                /\ UNCHANGED << legal_moves, fresh, history, panicked, workers >>

\* let score = self.minimax(depth, -i32::MAX, i32::MAX);
Minimax(depth) ==
    /\ AtGenerate
    /\ \E result \in {minimax(board, depth, -I32Max, I32Max)} :
           SearchEnds("minimax", result,
                      [op |-> "minimax", kind |-> "none", mv |-> None,
                       snapshot |-> board, depth |-> depth, score |-> result.score])

\* let best_moves = board.search_moves(n_moves, max_depth);
SearchMoves(n_moves, max_depth) ==
    /\ AtGenerate
    /\ \E result \in {search_moves(board, n_moves, max_depth)} :
           SearchEnds("search_moves", result,
                      [op |-> "search_moves", kind |-> "none", mv |-> None,
                       snapshot |-> board, n_moves |-> n_moves,
                       max_depth |-> max_depth, best_moves |-> result.best_moves])

\* perft with depth 0 on a board with a legal move: after the first make_move
\* the argument `depth - 1` of perft_helper is computed on a usize.  A build
\* with overflow checks aborts there; in a build without them the argument
\* wraps to usize::MAX and perft_helper recurses, one stack frame per ply,
\* along lines of play that no rule of the program ends, until the stack of
\* the process is used up.
PerftUnderflows(first_made) ==
    \E profile \in Builds(TRUE) :
        /\ build' = profile
        /\ Abort("perft",
                 IF profile = "checked"
                 THEN (IF first_made.overflow THEN "attempt to add with overflow"
                       ELSE "attempt to subtract with overflow")
                 ELSE "stack overflow in perft_helper(usize::MAX)")

\* board.perft(depth);
Perft(depth) ==
    /\ AtGenerate
    /\ \E gen \in {generate_legal_moves(board)} :
           IF /\ depth = 0
              /\ ~gen.panic /\ ~gen.board_state_changed
              /\ gen.moves # << >>
              /\ ~make_move(gen.board, gen.moves[1]).panic
           THEN PerftUnderflows(make_move(gen.board, gen.moves[1]))
           ELSE \E result \in {perft_moves(gen, depth)} :
                    SearchEnds("perft", result,
                               [op |-> "perft", kind |-> "none", mv |-> None,
                                snapshot |-> board, depth |-> depth,
                                nodes |-> result.nodes])

SearchNext ==
    \/ GenerateLegalMoves
    \/ \E i \in 1..Len(legal_moves) : MakeMove(i)
    \/ UnmakeMove
    \/ \E depth \in 0..MaxDepth : Minimax(depth)
    \/ \E n_moves \in 0..MaxMoves, max_depth \in 1..MaxDepth :
           SearchMoves(n_moves, max_depth)
    \/ \E depth \in 0..MaxDepth : Perft(depth)

SearchSpec == SearchInit /\ [][SearchNext]_vars

(***************************************************************************)
(* Leaf evaluation                                                         *)
(***************************************************************************)

\* The piece values of the material count; the king is not counted
PieceValue == [Pawn |-> 1, Knight |-> 3, Bishop |-> 3, Rook |-> 5, Queen |-> 9]

\* The material of one side
material(b, side) ==
    PieceValue.Pawn * Cardinality(pieces_of(b, side, "Pawn"))
    + PieceValue.Knight * Cardinality(pieces_of(b, side, "Knight"))
    + PieceValue.Bishop * Cardinality(pieces_of(b, side, "Bishop"))
    + PieceValue.Rook * Cardinality(pieces_of(b, side, "Rook"))
    + PieceValue.Queen * Cardinality(pieces_of(b, side, "Queen"))

\* The material balance seen from the side to move
material_for_side_to_move(b) ==
    material(b, b.side_to_move) - material(b, ~b.side_to_move)

\* minimax has returned from a call with this depth
MinimaxReturned(depth) ==
    last.op = "minimax" /\ panicked = "no" /\ last.depth = depth

\* C12: when minimax reaches depth 0 it returns the material evaluation from
\* the side to move's perspective: WhiteMaterial - BlackMaterial when White
\* is to move and BlackMaterial - WhiteMaterial when Black is to move.
LeafScoreIsForSideToMove ==
    MinimaxReturned(0) => last.score = material_for_side_to_move(last.snapshot)


\* The position has no legal move: generate_legal_moves returns the empty list
no_legal_moves(b) == generate_legal_moves(b).moves = << >>

\* The score of a position without legal moves: the checkmate value when the
\* side to move is in check, the draw value when it is not
terminal_score(b) ==
    IF chess_king_attacked(b, b.side_to_move) THEN -I32Max ELSE 0

\* C13: whenever minimax evaluates a node whose position has no legal moves,
\* at whatever remaining depth, it returns -i32::MAX if the side to move is in
\* check and 0 if it is not; in particular the stalemate
\* 7k/5Q2/6K1/8/8/8/8/8 b - - 0 1 has an empty legal move list and scores 0.
TerminalNodeScoresMateOrDraw ==
    /\ (last.op = "minimax" /\ panicked = "no" /\ no_legal_moves(last.snapshot))
           => last.score = terminal_score(last.snapshot)
    /\ no_legal_moves(set_pos(FenStalemate))
    /\ terminal_score(set_pos(FenStalemate)) = 0

\* The same above the leaves: with remaining depth of at least 1
TerminalNodeScoresAboveLeaves ==
    (last.op = "minimax" /\ panicked = "no" /\ last.depth >= 1
         /\ no_legal_moves(last.snapshot))
        => last.score = terminal_score(last.snapshot)


\* search_moves has returned to the caller
SearchMovesReturned == last.op = "search_moves" /\ panicked = "no"

\* The elements of a sequence
elements(seq) == { seq[i] : i \in 1..Len(seq) }

\* The root moves of b with the scores the iteration of this depth gives them
root_scores(b, depth) == depth_first_search(b, depth).scored_moves

\* C14: search_moves(n_moves, max_depth) with max_depth >= 1 returns scored
\* root moves of the iteration of depth max_depth, in non-increasing order of
\* score, cut to the first n_moves: the result has min(n_moves, number of
\* legal moves) entries, each one a legal move of the position with its score
\* of that iteration, and no legal move left out has a strictly greater score
\* in that iteration than a returned one.
SearchMovesReturnsBestOfDeepest ==
    SearchMovesReturned =>
        LET best == last.best_moves
            legal == generate_legal_moves(last.snapshot).moves
            scored == root_scores(last.snapshot, last.max_depth)
        IN  /\ Len(best) = IF last.n_moves < Len(legal) THEN last.n_moves ELSE Len(legal)
            /\ Cardinality(elements(best)) = Len(best)
            /\ elements(best) \subseteq elements(scored)
            /\ \A k \in 1..Len(best) : best[k].mv \in elements(legal)
            /\ \A k \in 1..(Len(best) - 1) : best[k].score >= best[k + 1].score
            /\ \A left_out \in elements(scored) \ elements(best) :
                   \A returned \in elements(best) : left_out.score <= returned.score

\* search_moves has returned one move of several after two iterations, the
\* second iteration scores it above a move left out, and the first iteration
\* alone would have returned another move
DeeperIterationChoseTheMove ==
    /\ SearchMovesReturned
    /\ last.max_depth = 2 /\ last.n_moves = 1 /\ Len(last.best_moves) = 1
    /\ \E left_out \in elements(root_scores(last.snapshot, 2)) :
           left_out.score < last.best_moves[1].score
    /\ last.best_moves[1].mv # sort_by_score(root_scores(last.snapshot, 1))[1].mv


\* The move loop of a minimax call with the full window on b, over the first
\* n_first legal moves
minimax_root_loop(b, depth, n_first) ==
    minimax_loop([board |-> b, best_score |-> -I32Max, alpha |-> -I32Max,
                  cutoff |-> FALSE, panic |-> FALSE, overflow |-> FALSE],
                 depth, I32Max, generate_legal_moves(b).moves, 1, n_first)

\* C15: search_moves and perft, and the minimax search under them, leave the
\* board unchanged: whenever one of them has returned, for whatever position,
\* n_moves and depth >= 1 it was called with, the board equals in every field
\* the board before the call, also when the alpha-beta cutoff ended a move
\* loop early; and a second call of search_moves with the same arguments on
\* the board as the first one left it returns the same list of (move, score).
SearchAndPerftRestoreBoard ==
    /\ (last.op \in {"search_moves", "perft", "minimax"} /\ panicked = "no")
           => board = last.snapshot
    /\ SearchMovesReturned
           => search_moves(board, last.n_moves, last.max_depth).best_moves
                  = last.best_moves

\* minimax has returned from a search of depth 2 whose move loop at the root
\* was ended by the cutoff before the last legal move was tried
CutoffEndedRootLoopEarly ==
    /\ MinimaxReturned(2)
    /\ Len(generate_legal_moves(last.snapshot).moves) >= 2
    /\ minimax_root_loop(last.snapshot, 2,
                         Len(generate_legal_moves(last.snapshot).moves) - 1).cutoff


(***************************************************************************)
(* The parallel root search of engine.rs.  Each item of                    *)
(* legal_moves.par_iter() runs the closure of depth_first_search_parallel  *)
(* on a thread of the pool; `workers` holds one record per item with the   *)
(* closure's position and locals, and the items advance in any order.      *)
(***************************************************************************)

I32Min == -I32Max - 1

\* Board::check_for_checkmate, from the specification's terminal handling:
\* no legal move and the side to move in check
check_for_checkmate(gen) ==
    gen.moves = << >> /\ is_in_check(gen.board, gen.board.side_to_move)

\* Board::check_for_draw, from the specification's terminal handling: no legal
\* move and the side to move not in check
check_for_draw(gen) ==
    gen.moves = << >> /\ ~is_in_check(gen.board, gen.board.side_to_move)

\* Engine::evaluate once the legal moves of the board are known
Engine_evaluate_terminal(gen) ==
    IF gen.panic \/ gen.board_state_changed
    THEN search_aborted(gen.board, gen.overflow)
    ELSE [ score |-> IF check_for_checkmate(gen)
                     THEN (IF gen.board.side_to_move = WHITE THEN I32Min ELSE I32Max)
                     ELSE IF check_for_draw(gen) THEN 0
                     ELSE evaluate(gen.board),
           board |-> gen.board, panic |-> FALSE, overflow |-> gen.overflow ]

\* Engine::evaluate
Engine_evaluate(b) == Engine_evaluate_terminal(generate_legal_moves(b))

\* The move loop of Engine::minimax once the recursive call has returned
\* `sub`: the score is negated, i32::MIN becoming i32::MAX
Engine_minimax_unmake(acc, beta, mv, made, sub) ==
    IF sub.panic \/ unmake_move_panics(mv)
    THEN [acc EXCEPT !.board = sub.board, !.panic = TRUE,
                     !.overflow = @ \/ made.overflow \/ sub.overflow]
    ELSE minimax_scored(acc, beta, unmake_move(sub.board, mv, made.undo),
                        IF sub.score = I32Min THEN I32Max ELSE -sub.score,
                        made.overflow \/ sub.overflow)

\* Engine::minimax: the score, the board as the call leaves it, whether the
\* call aborted, and whether a counter overflowed on the way
RECURSIVE Engine_minimax(_, _, _, _)
RECURSIVE Engine_minimax_moves(_, _, _, _)
RECURSIVE Engine_minimax_loop(_, _, _, _, _)
RECURSIVE Engine_minimax_made(_, _, _, _, _)
Engine_minimax(b, depth, alpha, beta) ==
    IF depth = 0 THEN Engine_evaluate(b)
    ELSE Engine_minimax_moves(generate_legal_moves(b), depth, alpha, beta)

\* Engine::minimax once generate_legal_moves has returned
Engine_minimax_moves(gen, depth, alpha, beta) ==
    IF gen.panic \/ gen.board_state_changed
    THEN search_aborted(gen.board, gen.overflow)
    ELSE minimax_returns(
             Engine_minimax_loop([board |-> gen.board, best_score |-> -I32Max,
                                  alpha |-> alpha, cutoff |-> FALSE, panic |-> FALSE,
                                  overflow |-> gen.overflow],
                                 depth, beta, gen.moves, 1))

\* the `for mv in legal_moves` loop of Engine::minimax from move i on
Engine_minimax_loop(acc, depth, beta, legal, i) ==
    IF i > Len(legal) \/ acc.panic \/ acc.cutoff THEN acc
    ELSE Engine_minimax_loop(
             Engine_minimax_made(acc, depth, beta, legal[i],
                                 make_move(acc.board, legal[i])),
             depth, beta, legal, i + 1)

\* the loop body once make_move has returned `made`; the recursive call is
\* minimax(depth - 1, -alpha, -beta)
Engine_minimax_made(acc, depth, beta, mv, made) ==
    IF made.panic
    THEN [acc EXCEPT !.board = made.board, !.panic = TRUE,
                     !.overflow = @ \/ made.overflow]
    ELSE Engine_minimax_unmake(acc, beta, mv, made,
                               Engine_minimax(made.board, depth - 1, -acc.alpha, -beta))

\* An item of legal_moves.par_iter() before its closure has started
worker_item(mv, depth) ==
    [ pc |-> "clone", mv |-> mv, depth |-> depth, cloned_engine |-> None,
      undo_state |-> None, score |-> None ]

\* A step of the closure: what it leaves of the engine's own board and of its
\* locals, whether it aborted, and whether a counter overflowed
closure_step(engine, w, panic, overflow) ==
    [engine |-> engine, worker |-> w, panic |-> panic, overflow |-> overflow]

\* let mut cloned_engine = self.clone();
worker_clones(engine, w) ==
    closure_step(engine, [w EXCEPT !.cloned_engine = Some(engine), !.pc = "make_move"],
                 FALSE, FALSE)

\* cloned_engine.board.make_move(mv) once it has returned `made`
worker_made_move(engine, w, made) ==
    closure_step(engine,
                 [w EXCEPT !.cloned_engine = Some(made.board),
                           !.undo_state = Some(made.undo), !.pc = "minimax"],
                 made.panic, made.overflow)

\* make_move applied to the engine's own board instead of the clone
worker_makes_move_shared(engine, w) ==
    worker_made_move(make_move(engine, w.mv).board, w,
                     make_move(CHOOSE b \in w.cloned_engine : TRUE, w.mv))

\* let undo_state = cloned_engine.board.make_move(mv);
worker_makes_move(engine, w) ==
    worker_made_move(engine, w,
                     make_move(CHOOSE b \in w.cloned_engine : TRUE, w.mv))

\* cloned_engine.minimax(..) once it has returned `sub`
worker_searched(engine, w, sub) ==
    closure_step(engine,
                 [w EXCEPT !.cloned_engine = Some(sub.board),
                           !.score = Some(sub.score), !.pc = "unmake_move"],
                 sub.panic, sub.overflow)

\* let score = cloned_engine.minimax(depth - 1, -i32::MAX, i32::MAX);
worker_searches(engine, w) ==
    worker_searched(engine, w,
                    Engine_minimax(CHOOSE b \in w.cloned_engine : TRUE,
                                   w.depth - 1, -I32Max, I32Max))

\* cloned_engine.board.unmake_move(mv, undo_state);
worker_unmakes_move(engine, w) ==
    closure_step(engine,
                 [w EXCEPT !.cloned_engine =
                               Some(unmake_move(CHOOSE b \in w.cloned_engine : TRUE, w.mv,
                                                CHOOSE u \in w.undo_state : TRUE)),
                           !.pc = "done"],
                 unmake_move_panics(w.mv), FALSE)

\* A king-and-pawn ending with White to move: four legal moves
\*   7k/8/8/8/8/8/P7/K7 w - - 0 1
FenKingAndPawn ==
    [ pieces     |-> << "7", "k", "/", "8", "/", "8", "/", "8", "/", "8", "/", "8", "/", "P", "7", "/", "K", "7" >>,
      side       |-> "w",
      castling   |-> << "-" >>,
      en_passant |-> << "-" >>,
      halfmove   |-> << "0" >>,
      fullmove   |-> << "1" >> ]

\* The white king in the corner next to a black pawn it can take
\*   7k/8/8/8/8/8/p7/K7 w - - 0 1
FenKingTakesPawn ==
    [ pieces     |-> << "7", "k", "/", "8", "/", "8", "/", "8", "/", "8", "/", "8", "/", "p", "7", "/", "K", "7" >>,
      side       |-> "w",
      castling   |-> << "-" >>,
      en_passant |-> << "-" >>,
      halfmove   |-> << "0" >>,
      fullmove   |-> << "1" >> ]

ParallelPositions ==
    { set_pos(FenKingAndPawn), set_pos(FenKingTakesPawn), set_pos(FenLongGame),
      set_pos(FenStalemate) }

ParallelInit ==
    /\ board \in ParallelPositions
    /\ legal_moves = << >>
    /\ fresh = FALSE
    /\ history = << >>
    /\ last = [op |-> "new", kind |-> "none", mv |-> None, snapshot |-> board]
    /\ panicked = "no"
    /\ build = "any"
    /\ workers = << >>

\* depth_first_search_parallel has been called and has not returned
InParallelSearch ==
    panicked = "no" /\ last.op = "depth_first_search_parallel" /\ ~last.returned

\* depth_first_search_parallel up to pool.install: the engine generates the
\* legal moves of its own board, one item per move
DepthFirstSearchParallel(depth) ==
    /\ panicked = "no"
    /\ ~InParallelSearch
    /\ \E gen \in {generate_legal_moves(board)} :
           \E profile \in Builds(gen.overflow) :
               /\ build' = profile
               /\ IF gen.panic \/ gen.board_state_changed
                     \/ (gen.overflow /\ profile = "checked")
                  THEN Abort("depth_first_search_parallel", "panic")
                  ELSE /\ board' = gen.board
                       /\ legal_moves' = gen.moves
                       /\ fresh' = TRUE
                       /\ workers' = [i \in 1..Len(gen.moves) |->
                                          worker_item(gen.moves[i], depth)]
                       /\ last' = [op |-> "depth_first_search_parallel",
                                   kind |-> "none", mv |-> None, snapshot |-> board,
                                   depth |-> depth, returned |-> FALSE,
                                   scored_moves |-> << >>]
                       /\ UNCHANGED << history, panicked >>

\* The closure of item i has taken a step; a panic in it is resumed in the
\* caller by pool.install
WorkerSteps(i, step) ==
    \E profile \in Builds(step.overflow) :
        /\ build' = profile
        /\ IF step.panic \/ (step.overflow /\ profile = "checked")
           THEN Abort("depth_first_search_parallel", "panic")
           ELSE /\ board' = step.engine
                /\ workers' = [workers EXCEPT ![i] = step.worker]
                /\ UNCHANGED << legal_moves, fresh, history, last, panicked >>

\* The pool runs the closure of item i one step further
WorkerClones(i) ==
    /\ InParallelSearch /\ workers[i].pc = "clone"
    /\ WorkerSteps(i, worker_clones(board, workers[i]))

WorkerMakesMove(i) ==
    /\ InParallelSearch /\ workers[i].pc = "make_move"
    /\ WorkerSteps(i, worker_makes_move(board, workers[i]))

WorkerSearches(i) ==
    /\ InParallelSearch /\ workers[i].pc = "minimax"
    /\ WorkerSteps(i, worker_searches(board, workers[i]))

WorkerUnmakesMove(i) ==
    /\ InParallelSearch /\ workers[i].pc = "unmake_move"
    /\ WorkerSteps(i, worker_unmakes_move(board, workers[i]))

\* .collect(): every closure has returned its ScoredMove::new(mv, score), and
\* the results are gathered in the order of the items
Collect ==
    /\ InParallelSearch
    /\ \A i \in 1..Len(workers) : workers[i].pc = "done"
    /\ last' = [last EXCEPT
                   !.returned = TRUE,
                   !.scored_moves =
                       [i \in 1..Len(workers) |->
                           ScoredMove(workers[i].mv,
                                      CHOOSE score \in workers[i].score : TRUE)]]
    /\ workers' = << >>
    /\ UNCHANGED << board, legal_moves, fresh, history, panicked, build >>

ParallelNext ==
    \/ \E depth \in 1..MaxDepth : DepthFirstSearchParallel(depth)
    \/ \E i \in 1..Len(workers) : WorkerClones(i)
    \/ \E i \in 1..Len(workers) : WorkerMakesMove(i)
    \/ \E i \in 1..Len(workers) : WorkerSearches(i)
    \/ \E i \in 1..Len(workers) : WorkerUnmakesMove(i)
    \/ Collect

ParallelSpec == ParallelInit /\ [][ParallelNext]_vars


\* The locals of the closure of item w0 when it runs alone on a copy of board
\* b up to position pc
run_alone(b, w0, pc) ==
    LET cloned == worker_clones(b, w0).worker
        made == worker_makes_move(b, cloned).worker
        searched == worker_searches(b, made).worker
        unmade == worker_unmakes_move(b, searched).worker
    IN  CASE pc = "clone" -> w0
          [] pc = "make_move" -> cloned
          [] pc = "minimax" -> made
          [] pc = "unmake_move" -> searched
          [] pc = "done" -> unmade

\* depth_first_search_parallel has returned to the caller
ParallelSearchReturned ==
    panicked = "no" /\ last.op = "depth_first_search_parallel" /\ last.returned

\* C16: in the parallel root search each worker applies make_move and
\* unmake_move only to its own clone of the board.  In every state of every
\* interleaving the engine's own board is the one the search was called on,
\* and each item's closure holds exactly what it would hold had it run alone
\* on a copy of that board, so it has read nothing another worker wrote; the
\* collected result has exactly one (move, score) entry per root legal move,
\* in the order of the legal move list, with the score the sequential
\* computation for that move gives.
WorkersKeepToTheirOwnClone ==
    /\ InParallelSearch =>
           LET moves == generate_legal_moves(last.snapshot).moves
           IN  /\ board = last.snapshot
               /\ Len(workers) = Len(moves)
               /\ \A i \in 1..Len(workers) :
                      workers[i] = run_alone(last.snapshot,
                                             worker_item(moves[i], last.depth),
                                             workers[i].pc)
    /\ ParallelSearchReturned =>
           LET moves == generate_legal_moves(last.snapshot).moves
           IN  /\ board = last.snapshot
               /\ Len(last.scored_moves) = Len(moves)
               /\ \A i \in 1..Len(moves) :
                      last.scored_moves[i] =
                          ScoredMove(moves[i],
                                     Engine_minimax(make_move(last.snapshot, moves[i]).board,
                                                    last.depth - 1, -I32Max, I32Max).score)

\* Two workers are under way at once, one searching and one about to unmake
\* its move, on clones that differ from each other and from the engine's board
TwoWorkersOnDifferentClones ==
    /\ InParallelSearch
    /\ \E i, j \in 1..Len(workers) :
           /\ workers[i].pc = "minimax" /\ workers[j].pc = "unmake_move"
           /\ workers[i].cloned_engine # workers[j].cloned_engine
           /\ workers[i].cloned_engine # Some(board)
           /\ workers[j].cloned_engine # Some(board)


(***************************************************************************)
(* The command loop of main.rs.  A line of input is a sequence of          *)
(* one-character strings.                                                  *)
(***************************************************************************)

\* (n + b'a') as char, and the decimal digit n.to_string() of n < 10
file_char(n) == CHOOSE c \in {"a", "b", "c", "d", "e", "f", "g", "h"} : file_index(c) = n
digit_char(n) == CHOOSE c \in Digits : to_digit(c) = n

\* Move::get_uci
get_uci(mv) ==
    << file_char(mv.from % 8), digit_char(mv.from \div 8 + 1),
       file_char(mv.to % 8), digit_char(mv.to \div 8 + 1) >>

\* (rank - 1) * 8 + (file as u8 - b'a') on u8: the square with the
\* arithmetic wrapping, and whether a subtraction overflowed
parsed_square(rank, file) ==
    [ square |-> AsU8(AsU8(AsU8(rank + 255) * 8) + AsU8(as_u8(file) + 159)),
      overflow |-> rank = 0 \/ as_u8(file) < 97 ]

\* parse_move once the two squares are computed: get_piece_type shifts 1u64
\* by the square (an overflow from 64 on, the shift count wrapping to the low
\* six bits) and panics on an empty square
parse_move_squares(b, from_square, to_square) ==
    [ mv |-> Some(Move(from_square.square, to_square.square,
                       get_piece_type(b, from_square.square % 64), None)),
      panic |-> ~is_occupied(b, from_square.square % 64),
      overflow |-> from_square.overflow \/ to_square.overflow
                   \/ from_square.square >= 64 ]

\* parse_move: the Option<Move> returned, whether the call panics with the
\* arithmetic wrapping, and whether an operation overflowed (the call panics
\* there in a build that checks overflow)
parse_move(input, b) ==
    IF Len(input) = 4 /\ input[2] \in Digits /\ input[4] \in Digits
    THEN parse_move_squares(b, parsed_square(to_digit(input[2]), input[1]),
                            parsed_square(to_digit(input[4]), input[3]))
    ELSE [mv |-> None, panic |-> FALSE, overflow |-> FALSE]

\* The branch `else if let Some(mv) = parse_move(..)` of the loop once the
\* legal moves are generated and the input is parsed: what the iteration
\* leaves of the board and how it ends
move_command(gen, parsed, build_checks) ==
    IF gen.panic \/ gen.board_state_changed \/ parsed.panic
       \/ (build_checks /\ (gen.overflow \/ parsed.overflow))
    THEN [board |-> gen.board, outcome |-> "abort", mv |-> None, overflow |-> FALSE]
    ELSE IF parsed.mv = None
    THEN [board |-> gen.board, outcome |-> "Invalid move format", mv |-> None,
          overflow |-> FALSE]
    ELSE LET mv == CHOOSE m \in parsed.mv : TRUE
             made == make_move(gen.board, mv)
         IN  IF \E i \in 1..Len(gen.moves) : gen.moves[i] = mv
             THEN [board |-> made.board,
                   outcome |-> IF made.panic THEN "abort" ELSE "made",
                   mv |-> Some(mv), overflow |-> made.overflow]
             ELSE [board |-> gen.board, outcome |-> "Invalid move", mv |-> parsed.mv,
                   overflow |-> FALSE]

\* Lines of input that name no legal move of the starting position: a move
\* of a piece that cannot make it, an empty origin square, a rank digit 0 or
\* 9, a file letter outside a..h, a wrong length, a letter for a rank
BadInputs ==
    { << "e", "2", "e", "5" >>, << "e", "4", "e", "5" >>, << "e", "0", "e", "4" >>,
      << "e", "9", "e", "4" >>, << "A", "2", "e", "4" >>, << "i", "2", "e", "4" >>,
      << "e", "2", "i", "4" >>, << "e", "2", "e" >>, << "e", "2", "e", "x" >> }

\* The promotion letter of a move's text form
promotion_letter(mv) ==
    IF mv.promotion = None THEN << >>
    ELSE LET p == CHOOSE p \in mv.promotion : TRUE
         IN  CASE p = "Queen" -> << "q" >> [] p = "Rook" -> << "r" >>
               [] p = "Bishop" -> << "b" >> [] p = "Knight" -> << "n" >>

\* The text form of a move: the four characters of its squares and the
\* promotion letter of a promotion
move_text(mv) == get_uci(mv) \o promotion_letter(mv)

\* The lines of input tried on board b: the bad ones and the text forms of
\* its legal moves
Inputs(b) ==
    BadInputs \cup { move_text(mv) : mv \in elements(generate_legal_moves(b).moves) }
              \cup { get_uci(mv) : mv \in elements(generate_legal_moves(b).moves) }

CommandPositions == { NewBoard, set_pos(FenPromotion), set_pos(FenKingTakesPawn) }

CommandInit ==
    /\ board \in CommandPositions
    /\ legal_moves = << >>
    /\ fresh = FALSE
    /\ history = << >>
    /\ last = [op |-> "new", kind |-> "none", mv |-> None, snapshot |-> board]
    /\ panicked = "no"
    /\ build = "any"
    /\ workers = << >>

\* The loop is waiting for a line of input; the model stops after MaxPly
\* moves have been entered and made
AtPrompt == panicked = "no" /\ last.op # "quit" /\ Len(history) < MaxPly

\* One iteration of the loop on a line that is neither quit nor perft
MoveCommand(input) ==
    /\ AtPrompt
    /\ \E gen \in {generate_legal_moves(board)} :
         \E parsed \in {parse_move(input, gen.board)} :
           \E profile \in Builds(gen.overflow \/ parsed.overflow
                                 \/ move_command(gen, parsed, FALSE).overflow) :
             \E ended \in {move_command(gen, parsed, profile = "checked")} :
               /\ build' = profile
               /\ board' = ended.board
               /\ panicked' = IF ended.outcome = "abort"
                                 \/ (ended.overflow /\ profile = "checked")
                              THEN "panic" ELSE "no"
               /\ last' = [op |-> "move_command", kind |-> "none", mv |-> ended.mv,
                           snapshot |-> board, input |-> input,
                           outcome |-> IF ended.overflow /\ profile = "checked"
                                       THEN "abort" ELSE ended.outcome]
               /\ history' = IF ended.outcome = "made"
                                /\ ~(ended.overflow /\ profile = "checked")
                             THEN Append(history, [mv |-> ended.mv])
                             ELSE history
               /\ legal_moves' = gen.moves
               /\ fresh' = FALSE
               /\ UNCHANGED workers

\* One iteration of the loop on the line `perft 1`
PerftCommand == Perft(1)

\* The line `quit`
QuitCommand ==
    /\ AtPrompt
    /\ last' = [op |-> "quit", kind |-> "none", mv |-> None, snapshot |-> board]
    /\ UNCHANGED << board, legal_moves, fresh, history, panicked, build, workers >>

CommandNext ==
    \/ \E input \in Inputs(board) : MoveCommand(input)
    \/ PerftCommand
    \/ QuitCommand

CommandSpec == CommandInit /\ [][CommandNext]_vars


\* The line of input is the text form of a legal move of b
denotes_legal_move(input, b) ==
    \E mv \in elements(generate_legal_moves(b).moves) : move_text(mv) = input

\* C17: in the command loop every input move string that does not denote a
\* move of the current legal move list (a move of an existing piece that is
\* not legal, an empty origin square, file or rank characters out of range)
\* is rejected: the board is unchanged, the process does not abort, and the
\* loop goes on to the next command.
InvalidInputsAreRejected ==
    (last.op = "move_command" /\ ~denotes_legal_move(last.input, last.snapshot))
        => /\ panicked = "no"
           /\ board = last.snapshot
           /\ last.outcome \in {"Invalid move", "Invalid move format"}

\* The same for the inputs that parse_move turns into a move of a piece
\* standing on the board, with squares in range
MovesOfExistingPiecesAreRejected ==
    (/\ last.op = "move_command"
     /\ ~denotes_legal_move(last.input, last.snapshot)
     /\ ~parse_move(last.input, last.snapshot).panic
     /\ ~parse_move(last.input, last.snapshot).overflow)
        => /\ panicked = "no"
           /\ board = last.snapshot
           /\ last.outcome \in {"Invalid move", "Invalid move format"}

\* C18: the text form of a move is the four characters of its squares,
\* followed by the promotion letter q, r, b or n when it is a promotion; so no
\* two distinct moves of a position's legal move list have the same text
\* form, and every legal move, each promotion included, can be entered as
\* text and is matched against the legal list and made.
MoveTextsAreDistinctAndEnterable ==
    (last.op = "move_command" /\ panicked = "no") =>
        LET legal == elements(generate_legal_moves(last.snapshot).moves)
        IN  /\ \A mv \in legal : get_uci(mv) = move_text(mv)
            /\ \A m1, m2 \in legal : m1 # m2 => get_uci(m1) # get_uci(m2)
            /\ \A mv \in legal :
                   last.input = move_text(mv)
                       => last.outcome = "made" /\ last.mv = Some(mv)

\* The same for the moves that are not promotions
PlainMoveTextsAreDistinctAndEnterable ==
    (last.op = "move_command" /\ panicked = "no") =>
        LET legal == { mv \in elements(generate_legal_moves(last.snapshot).moves) :
                           mv.promotion = None }
        IN  /\ \A mv \in legal : get_uci(mv) = move_text(mv)
            /\ \A m1, m2 \in legal : m1 # m2 => get_uci(m1) # get_uci(m2)
            /\ \A mv \in legal :
                   last.input = move_text(mv)
                       => last.outcome = "made" /\ last.mv = Some(mv)


(***************************************************************************)
(* Loading a position from FEN text: set_pos on well-formed fields and on  *)
(* fields that deviate from the format.                                    *)
(***************************************************************************)

\* The values tried for each of the six fields
PiecesFields == { FenPromotion.pieces, FenStalemate.pieces, << "8", "/", "x" >> }
SideFields == { "w", "b", "x", "W" }
CastlingFields ==
    { << "-" >>, << "K", "Q", "k", "q" >>, << "K", "x" >>, << "-", "x" >> }
EnPassantFields ==
    { << "-" >>, << "e", "3" >>, << "e" >>, << "z", "9" >>, << "e", "9" >> }
HalfmoveFields == { << "0" >>, << "1", "2" >>, << "x" >>, << "1", "x" >> }
FullmoveFields == { << "1" >>, << "x" >> }

\* The FEN strings tried, as their whitespace-separated parts: six fields
\* each, and one string with five parts and one with seven
FenInputs ==
    { << pieces, side, castling, en_passant, halfmove, fullmove >> :
          pieces \in PiecesFields, side \in SideFields, castling \in CastlingFields,
          en_passant \in EnPassantFields, halfmove \in HalfmoveFields,
          fullmove \in FullmoveFields }
    \cup { << FenPromotion.pieces, "w", << "-" >>, << "-" >>, << "0" >> >>,
           << FenPromotion.pieces, "w", << "-" >>, << "-" >>, << "0" >>, << "1" >>,
              << "1" >> >> }

LoadInit ==
    /\ board = NewBoard
    /\ legal_moves = << >>
    /\ fresh = FALSE
    /\ history = << >>
    /\ last = [op |-> "new", kind |-> "none", mv |-> None, snapshot |-> board]
    /\ panicked = "no"
    /\ build = "any"
    /\ workers = << >>

\* board.set_pos(fen) on the board that Board::new has made
SetPos(parts) ==
    /\ panicked = "no"
    /\ last.op = "new"
    /\ last' = [op |-> "set_pos", kind |-> "none", mv |-> None, snapshot |-> board,
                fen |-> parts]
    /\ \E profile \in Builds(Len(parts) = 6
                             /\ set_en_passant_overflows(six_fields(parts).en_passant)) :
           /\ build' = profile
           /\ IF Len(parts) # 6
              THEN panicked' = "Invalid FEN string" /\ board' = board
              ELSE IF \/ set_pos_panics(six_fields(parts))
                      \/ (profile = "checked"
                          /\ set_en_passant_overflows(six_fields(parts).en_passant))
              THEN panicked' = "panic" /\ board' = board
              ELSE panicked' = "no" /\ board' = set_pos(six_fields(parts))
    /\ UNCHANGED << legal_moves, fresh, history, workers >>

LoadNext == \E parts \in FenInputs : SetPos(parts)

LoadSpec == LoadInit /\ [][LoadNext]_vars

\* A field of decimal digits
is_decimal(field) ==
    field # << >> /\ \A i \in 1..Len(field) : field[i] \in Digits

\* A field that names a square a1..h8
is_square(field) ==
    /\ Len(field) = 2
    /\ field[1] \in {"a", "b", "c", "d", "e", "f", "g", "h"}
    /\ field[2] \in {"1", "2", "3", "4", "5", "6", "7", "8"}

\* The six fields deviate from the FEN format in the side, castling,
\* en-passant, halfmove or fullmove field
deviates(fen) ==
    \/ fen.side \notin {"w", "b"}
    \/ ~is_decimal(fen.halfmove)
    \/ ~is_decimal(fen.fullmove)
    \/ \E i \in 1..Len(fen.castling) : fen.castling[i] \notin {"K", "Q", "k", "q", "-"}
    \/ ~(fen.en_passant = << "-" >> \/ is_square(fen.en_passant))

\* C19: set_pos treats every deviation from the six-field FEN format as a
\* fatal input error: a side field other than "w" or "b", a halfmove or
\* fullmove field that is not a decimal integer, a castling field with a
\* character outside K, Q, k, q, -, or an en-passant field that is neither
\* "-" nor a square a1..h8 aborts loading instead of producing a board.
DeviationsAbortLoading ==
    (last.op = "set_pos" /\ (Len(last.fen) # 6 \/ deviates(six_fields(last.fen))))
        => panicked # "no"

\* The deviations that do abort loading: a wrong number of fields, a castling
\* character outside K, Q, k, q before any '-', an en-passant field of one
\* character, a piece letter that is none
DeviationsThatAbortLoading ==
    (/\ last.op = "set_pos"
     /\ \/ Len(last.fen) # 6
        \/ set_castling_rights_panics(six_fields(last.fen).castling)
        \/ Len(six_fields(last.fen).en_passant) = 1
               /\ six_fields(last.fen).en_passant # << "-" >>
        \/ \E i \in 1..Len(six_fields(last.fen).pieces) :
               six_fields(last.fen).pieces[i] = "x")
        => panicked # "no"


\* The move resets the halfmove clock under the fifty-move rule: a pawn move
\* or a capture, the en-passant capture being a pawn move
resets_clock(b, mv) == mv.piece_type = "Pawn" \/ is_occupied(b, mv.to)

\* C20: after make_move the halfmove clock is 0 if the move is a pawn move or
\* captures a piece (an en-passant capture included), and otherwise it is
\* exactly the previous clock value plus 1, for every previous value the
\* 8-bit clock can hold (0..255).
HalfmoveClockResetsOrIncrements ==
    (last.op = "make_move" /\ panicked = "no") =>
        \A mv \in last.mv :
            board.halfmove_clock =
                IF resets_clock(last.snapshot, mv) THEN 0
                ELSE last.snapshot.halfmove_clock + 1

\* The same for the previous values below 255
HalfmoveClockBelowTopResetsOrIncrements ==
    (last.op = "make_move" /\ panicked = "no"
         /\ last.snapshot.halfmove_clock < 255) =>
        \A mv \in last.mv :
            board.halfmove_clock =
                IF resets_clock(last.snapshot, mv) THEN 0
                ELSE last.snapshot.halfmove_clock + 1


\* The move is a pawn's advance of two ranks from its starting rank: rank 2
\* to rank 4 for White, rank 7 to rank 5 for Black
double_push(b, mv) ==
    /\ mv.piece_type = "Pawn"
    /\ \/ b.side_to_move = WHITE /\ get_rank(mv.from) = 1 /\ mv.to = mv.from + 16
       \/ b.side_to_move = BLACK /\ get_rank(mv.from) = 6 /\ mv.to = mv.from - 16

\* C21: after make_move the en-passant target is set if and only if the move
\* is a pawn move of two ranks from the pawn's starting rank, and then it is
\* the square the pawn passed over; after every other move, an en-passant
\* capture included, the target is None.
EnPassantTargetIffDoublePush ==
    (last.op = "make_move" /\ panicked = "no") =>
        \A mv \in last.mv :
            board.en_passant =
                IF double_push(last.snapshot, mv)
                THEN Some((mv.from + mv.to) \div 2)
                ELSE None

\* An en-passant capture has been made, and it has cleared the target it used
EnPassantCaptureClearedTarget ==
    /\ last.op = "make_move" /\ panicked = "no"
    /\ last.kind = "en_passant"
    /\ last.snapshot.en_passant # None
    /\ board.en_passant = None


\* The castling rights a move takes away by the corner rule: both rights of
\* the mover for a King move, and the right tied to a corner square that is
\* the move's origin or its destination
rights_of_corner(square) ==
    CASE square = 0 -> {2} [] square = 7 -> {1}
      [] square = 56 -> {8} [] square = 63 -> {4} [] OTHER -> {}

rights_cleared_by(b, mv) ==
    (IF mv.piece_type = "King"
     THEN (IF b.side_to_move = WHITE THEN {1, 2} ELSE {4, 8})
     ELSE {})
    \cup rights_of_corner(mv.from) \cup rights_of_corner(mv.to)

FenKnightInCorner ==
    [ pieces     |-> << "4", "k", "3", "/", "8", "/", "8", "/", "8", "/", "8", "/", "8", "/", "8", "/", "N", "B", "2", "K", "2", "R" >>,
      side       |-> "w",
      castling   |-> << "K", "Q" >>,
      en_passant |-> << "-" >>,
      halfmove   |-> << "0" >>,
      fullmove   |-> << "1" >> ]

\* White may castle king-side by the castling field, with the rook on h2
\*   4k3/8/8/8/8/8/7R/4KB2 w K - 0 1
FenRookAboveCorner ==
    [ pieces     |-> << "4", "k", "3", "/", "8", "/", "8", "/", "8", "/", "8", "/", "8", "/", "7", "R", "/", "4", "K", "B", "2" >>,
      side       |-> "w",
      castling   |-> << "K" >>,
      en_passant |-> << "-" >>,
      halfmove   |-> << "0" >>,
      fullmove   |-> << "1" >> ]

\* A black knight that can move onto the en-passant target e3 behind the pawn e4
\*   4k3/8/8/8/2n1P3/8/8/4K3 b - e3 0 1
FenKnightOntoTarget ==
    [ pieces     |-> << "4", "k", "3", "/", "8", "/", "8", "/", "8", "/", "2", "n", "1", "P", "3", "/", "8", "/", "8", "/", "4", "K", "3" >>,
      side       |-> "b",
      castling   |-> << "-" >>,
      en_passant |-> << "e", "3" >>,
      halfmove   |-> << "0" >>,
      fullmove   |-> << "1" >> ]

\* The same with no pawn on e4: the en-passant field names e3 all the same
\*   4k3/8/8/8/2n5/8/8/4K3 b - e3 0 1
FenTargetWithoutPawn ==
    [ pieces     |-> << "4", "k", "3", "/", "8", "/", "8", "/", "8", "/", "2", "n", "5", "/", "8", "/", "8", "/", "4", "K", "3" >>,
      side       |-> "b",
      castling   |-> << "-" >>,
      en_passant |-> << "e", "3" >>,
      halfmove   |-> << "0" >>,
      fullmove   |-> << "1" >> ]

LoadedPositions ==
    { set_pos(FenKnightInCorner), set_pos(FenRookAboveCorner),
      set_pos(FenKnightOntoTarget), set_pos(FenTargetWithoutPawn) }

LoadedInit ==
    /\ board \in LoadedPositions
    /\ legal_moves = << >>
    /\ fresh = FALSE
    /\ history = << >>
    /\ last = [op |-> "new", kind |-> "none", mv |-> None, snapshot |-> board]
    /\ panicked = "no"
    /\ build = "any"
    /\ workers = << >>

LoadedSpec == LoadedInit /\ [][Next]_vars

\* A piece that is not a rook has left a corner square, or a piece has moved
\* onto a corner of its own side, while the right tied to the corner was set
CornerMoveKeptCastlingRight ==
    /\ last.op = "make_move" /\ panicked = "no"
    /\ \E mv \in last.mv : \E right \in rights_cleared_by(last.snapshot, mv) :
           /\ BitAnd(last.snapshot.castling_rights, right) # 0
           /\ BitAnd(board.castling_rights, right) # 0


\* C23: the diagonal attack test reports a square as attacked if and only if
\* an enemy bishop or queen stands on the same diagonal with every square
\* strictly between them empty; no ray reports an attacker it reaches by
\* running past a board edge onto another rank or file.
DiagonalAttackTestIsExact ==
    \A square \in 0..63 : \A side \in BOOLEAN :
        is_attacked_by_sliding_pieces(board, square, side, DiagonalDirs)
            <=> \E piece_type \in {"Bishop", "Queen"} :
                    \E from \in pieces_of(board, ~side, piece_type) :
                        chess_attacks(board, ~side, "Bishop", from, square)

\* The same test on every board on which no enemy bishop or queen stands on
\* the corner opposite to the tested corner of the long diagonal a1-h8
DiagonalAttackTestIsExactOffTheLongDiagonal ==
    \A square \in 0..63 : \A side \in BOOLEAN :
        LET diagonal_sliders == pieces_of(board, ~side, "Bishop")
                                    \cup pieces_of(board, ~side, "Queen")
        IN  ~(square \in {0, 63} /\ (63 - square) \in diagonal_sliders) =>
                (is_attacked_by_sliding_pieces(board, square, side, DiagonalDirs)
                    <=> \E from \in diagonal_sliders :
                            chess_attacks(board, ~side, "Bishop", from, square))


\* C24: for every square and every defender side, the king-adjacency test is
\* true if and only if the enemy king stands within Chebyshev distance 1 of
\* the square, wherever the defender's own king stands.
KingAdjacencyTestIsExact ==
    \A square \in 0..63 : \A side \in BOOLEAN :
        is_attacked_by_king(board, square, side)
            <=> \E king \in pieces_of(board, ~side, "King") :
                    chess_attacks(board, ~side, "King", king, square)


\* The pieces standing on a square, each with its side
square_content(b, square) ==
    { << side, piece_type >> \in BOOLEAN \X PieceTypes :
          square \in pieces_of(b, side, piece_type) }

\* The square next to the en-passant target on which the pawn that an
\* en-passant capture takes stands, for the side to move on b
square_behind_target(b, target) ==
    IF b.side_to_move = WHITE THEN target - 8 ELSE target + 8

\* The candidate moves of a piece other than a pawn onto the en-passant target
non_pawn_moves_onto_target(b) ==
    LET candidates == pseudo_legal_moves(b)
    IN  { candidates[i] : i \in { j \in 1..Len(candidates) :
              /\ candidates[j].piece_type # "Pawn"
              /\ b.en_passant = Some(candidates[j].to) } }

\* C25: unmake_move takes the en-passant branch only for pawn moves: undoing
\* a move of another piece onto the en-passant target recorded in the undo
\* record puts the recorded captured piece, if any, back on the destination
\* and places no pawn on the square next to the target.
UnmakeOfNonPawnMoveOntoTargetPlacesNoPawn ==
    panicked = "no" =>
        \A mv \in non_pawn_moves_onto_target(board) :
            LET made == make_move(board, mv)
                unmade == unmake_move(made.board, mv, made.undo)
                behind == square_behind_target(board, mv.to)
            IN  /\ square_content(unmade, mv.to) = square_content(board, mv.to)
                /\ square_content(unmade, behind) = square_content(board, behind)


\* generate_legal_moves has stopped on its assertion that the board is left
\* as it was found
GenerateLegalMovesFoundBoardChanged ==
    panicked = "Board state changed after generate_legal_moves"


(* The calls of make_move and unmake_move one at a time: generate_legal_moves,
   minimax and perft_helper run as a stack of activation records, kept in
   `history` with the running call last.  `last` holds the latest call, and
   in `open` the make_move calls made so far in the operation that no
   unmake_move has answered yet, with the undo record each one returned. *)

CallPositions ==
    { set_pos(FenMateInOne), set_pos(FenHangingKnight), set_pos(FenStalemate),
      set_pos(FenKingTakesPawn) }

Routines == {"generate_legal_moves", "minimax", "perft_helper"}

\* The activation record of a routine called on board b: its parameters and
\* its local variables, and the place `pc` where it stands.  `moves` is the
\* candidate list of generate_legal_moves and the legal_moves of the other two.
activation(fn, depth, alpha, beta, b) ==
    [ fn |-> fn, depth |-> depth, alpha |-> alpha, beta |-> beta,
      best_score |-> -I32Max, total_moves |-> 0, score |-> 0,
      initial_state |-> b,
      moves |-> IF fn = "generate_legal_moves" THEN pseudo_legal_moves(b) ELSE << >>,
      kept |-> << >>, i |-> 1, pending |-> None,
      pc |-> IF fn = "generate_legal_moves" THEN "loop"
             ELSE IF depth = 0 THEN "return" ELSE "generate" ]

\* What the running routine returns on board b, standing after its loop or
\* on one of its return statements
returned_value(f, b) ==
    CASE f.fn = "generate_legal_moves" -> f.kept
      [] f.fn = "minimax" ->
             IF f.depth = 0 THEN evaluate(b)
             ELSE IF f.moves = << >> THEN evaluate_checkmate_or_stalemate(b)
             ELSE f.best_score
      [] f.fn = "perft_helper" -> IF f.depth = 0 THEN 1 ELSE f.total_moves

\* The caller as it would go on if minimax tested the cutoff on the score it
\* got back before unmaking the move
resume_break_first(caller, value) ==
    IF caller.pc = "generating"
    THEN [caller EXCEPT !.moves = value, !.i = 1, !.pc = "loop"]
    ELSE IF caller.fn = "minimax" /\ Max(caller.alpha, -value) >= caller.beta
    THEN [caller EXCEPT !.best_score = Max(@, -value), !.pc = "return"]
    ELSE [caller EXCEPT !.score = IF caller.fn = "minimax" THEN -value ELSE value,
                        !.pc = "returned"]

\* The caller going on with the value its callee returned:
\* `let legal_moves = self.generate_legal_moves();`, or
\* `let score = -self.minimax(depth - 1, -beta, -alpha);`, or the operand of
\* `total_moves += self.perft_helper(depth - 1);`
resume(caller, value) ==
    IF caller.pc = "generating"
    THEN [caller EXCEPT !.moves = value, !.i = 1, !.pc = "loop"]
    ELSE [caller EXCEPT !.score = IF caller.fn = "minimax" THEN -value ELSE value,
                        !.pc = "returned"]

\* The rest of the loop body once unmake_move has been called: on the board
\* b as make_move left it, the closure of retain keeps the move if the
\* mover's king is not attacked; minimax raises best_score and alpha and
\* breaks when alpha >= beta; perft_helper adds the count
after_unmake(f, b) ==
    CASE f.fn = "generate_legal_moves" ->
             [f EXCEPT !.kept = IF ~is_in_check(b, ~b.side_to_move)
                                THEN Append(@, f.moves[f.i]) ELSE @,
                       !.i = @ + 1, !.pending = None, !.pc = "loop"]
      [] f.fn = "minimax" ->
             [f EXCEPT !.best_score = Max(@, f.score),
                       !.alpha = Max(@, f.score),
                       !.i = @ + 1, !.pending = None,
                       !.pc = IF Max(f.alpha, f.score) >= f.beta
                              THEN "return" ELSE "loop"]
      [] f.fn = "perft_helper" ->
             [f EXCEPT !.total_moves = @ + f.score,
                       !.i = @ + 1, !.pending = None, !.pc = "loop"]

CallInit ==
    /\ board \in CallPositions
    /\ legal_moves = << >>
    /\ fresh = FALSE
    /\ history = << >>
    /\ last = [op |-> "new", kind |-> "none", mv |-> None, snapshot |-> board,
               undo_state |-> None, open |-> << >>, matched |-> TRUE,
               cutoff |-> FALSE]
    /\ panicked = "no"
    /\ build = "any"
    /\ workers = << >>

\* The program aborts inside the running routine
CallAbort(cause) ==
    /\ panicked' = cause
    /\ last' = [last EXCEPT !.kind = "abort"]
    /\ UNCHANGED << board, legal_moves, fresh, history, workers >>

\* The routine fn is called on the board with the given depth
Enter(fn, depth) ==
    /\ panicked = "no"
    /\ last.op = "new"
    /\ history' = << activation(fn, depth, -I32Max, I32Max, board) >>
    /\ last' = [last EXCEPT !.op = fn, !.kind = "call"]
    /\ UNCHANGED << board, legal_moves, fresh, panicked, build, workers >>

\* let legal_moves = self.generate_legal_moves(); in minimax and perft_helper
EnterGenerateLegalMoves ==
    /\ panicked = "no"
    /\ history # << >>
    /\ history[Len(history)].pc = "generate"
    /\ history' = Append([history EXCEPT ![Len(history)].pc = "generating"],
                         activation("generate_legal_moves", 0, 0, 0, board))
    /\ last' = [last EXCEPT !.kind = "call"]
    /\ UNCHANGED << board, legal_moves, fresh, panicked, build, workers >>

\* let undo_state = self.make_move(mv); for the next move of the loop,
\* followed in minimax and perft_helper by the call on the new board
EnterMakeMove ==
    /\ panicked = "no"
    /\ history # << >>
    /\ LET f == history[Len(history)]
       IN  /\ f.pc = "loop"
           /\ f.i <= Len(f.moves)
           /\ \E made \in {make_move(board, f.moves[f.i])} :
                \E profile \in Builds(made.overflow) :
                  /\ build' = profile
                  /\ IF (made.overflow /\ profile = "checked") \/ made.panic
                     THEN CallAbort("make_move")
                     ELSE LET call == [mv |-> f.moves[f.i], undo_state |-> made.undo]
                              waiting == [f EXCEPT !.pending = Some(call),
                                                   !.pc = IF f.fn = "generate_legal_moves"
                                                          THEN "made" ELSE "called"]
                          IN  /\ board' = made.board
                              /\ history' =
                                   IF f.fn = "generate_legal_moves"
                                   THEN [history EXCEPT ![Len(history)] = waiting]
                                   ELSE Append([history EXCEPT ![Len(history)] = waiting],
                                               activation(f.fn, f.depth - 1,
                                                          -f.beta, -f.alpha, made.board))
                              /\ last' = [last EXCEPT !.kind = "make_move",
                                                      !.mv = Some(call.mv),
                                                      !.undo_state = Some(call.undo_state),
                                                      !.open = Append(@, call)]
                              /\ UNCHANGED << legal_moves, fresh, panicked, workers >>

\* self.unmake_move(mv, undo_state); with the locals of the running routine
EnterUnmakeMove ==
    /\ panicked = "no"
    /\ history # << >>
    /\ LET f == history[Len(history)]
       IN  /\ f.pc \in {"made", "returned"}
           /\ \E call \in f.pending :
                IF unmake_move_panics(call.mv)
                THEN CallAbort("unmake_move") /\ UNCHANGED build
                ELSE /\ board' = unmake_move(board, call.mv, call.undo_state)
                     /\ \E g \in {after_unmake(f, board)} :
                          /\ history' = [history EXCEPT ![Len(history)] = g]
                          /\ last' = [last EXCEPT
                                 !.kind = "unmake_move",
                                 !.mv = Some(call.mv),
                                 !.undo_state = Some(call.undo_state),
                                 !.matched = /\ last.open # << >>
                                             /\ last.open[Len(last.open)] = call,
                                 !.open = SubSeq(@, 1, Len(@) - 1),
                                 !.cutoff = @ \/ (g.pc = "return")]
                     /\ UNCHANGED << legal_moves, fresh, panicked, build, workers >>

\* The running routine returns to its caller, or the operation returns;
\* generate_legal_moves first compares the board with its initial_state
Leave ==
    /\ panicked = "no"
    /\ history # << >>
    /\ LET f == history[Len(history)]
       IN  /\ f.pc = "return" \/ (f.pc = "loop" /\ f.i > Len(f.moves))
           /\ IF f.fn = "generate_legal_moves" /\ board # f.initial_state
              THEN CallAbort("Board state changed after generate_legal_moves")
                   /\ UNCHANGED build
              ELSE /\ history' =
                        IF Len(history) = 1 THEN << >>
                        ELSE [SubSeq(history, 1, Len(history) - 1) EXCEPT
                                 ![Len(history) - 1] =
                                     resume(history[Len(history) - 1],
                                            returned_value(f, board))]
                   /\ last' = [last EXCEPT !.kind = IF Len(history) = 1
                                                    THEN "return" ELSE "returned"]
                   /\ UNCHANGED << board, legal_moves, fresh, panicked, build, workers >>

CallNext ==
    \/ \E fn \in Routines : \E depth \in 0..MaxDepth : Enter(fn, depth)
    \/ EnterGenerateLegalMoves
    \/ EnterMakeMove
    \/ EnterUnmakeMove
    \/ Leave

CallSpec == CallInit /\ [][CallNext]_vars

pieces_at_home(b, right) ==
    CASE right = 1 -> b.white_king = {4} /\ 7 \in b.white_rooks
      [] right = 2 -> b.white_king = {4} /\ 0 \in b.white_rooks
      [] right = 4 -> b.black_king = {60} /\ 63 \in b.black_rooks
      [] right = 8 -> b.black_king = {60} /\ 56 \in b.black_rooks

\* The King moves of two files in a list of moves
castling_moves(moves) ==
    { moves[i] : i \in { j \in 1..Len(moves) :
          moves[j].piece_type = "King" /\ Abs(moves[j].to - moves[j].from) = 2 } }

\* C27: in every position reached by legal moves a castling right that is
\* set has its king and its rook at home, and hence every generated castling
\* move starts on e1 or e8 and moves the king of the side to move two files.
CastlingRightsImplyPiecesAtHome ==
    /\ panicked = "no" =>
           \A right \in {1, 2, 4, 8} :
               BitAnd(board.castling_rights, right) # 0 => pieces_at_home(board, right)
    /\ (last.op = "generate_legal_moves" /\ panicked = "no") =>
           \A mv \in castling_moves(legal_moves) :
               /\ mv.from = (IF board.side_to_move = WHITE THEN 4 ELSE 60)
               /\ mv.from \in own_bitboard(board, "King")
               /\ BitAnd(board.castling_rights,
                         CASE mv.to = 6 -> 1 [] mv.to = 2 -> 2
                           [] mv.to = 62 -> 4 [] mv.to = 58 -> 8 [] OTHER -> 0) # 0

\* A rook has left its corner and taken one right with it, and the side to
\* move now still has a castling move
CastlingGeneratedAfterRookLeftCorner ==
    /\ last.op = "generate_legal_moves" /\ panicked = "no"
    /\ Len(history) = 1
    /\ history[1].mv.piece_type = "Rook"
    /\ history[1].mv.from \in {0, 7, 56, 63}
    /\ board.castling_rights # history[1].before.castling_rights
    /\ castling_moves(legal_moves) # {}


\* C28: make_move and unmake_move applied to a move returned by
\* generate_legal_moves never reach a fatal abort: handle_castling is called
\* only with a destination in {2, 6, 58, 62}, promote_pawn only with Queen,
\* Rook, Bishop or Knight, and get_piece_type never on an empty square.
LegalMovesNeverAbortMakeOrUnmake ==
    /\ panicked # "panic"
    /\ (last.op = "generate_legal_moves" /\ panicked = "no") =>
           \A i \in 1..Len(legal_moves) :
               LET mv == legal_moves[i]
                   is_castle == mv.piece_type = "King" /\ Abs(mv.from - mv.to) = 2
                   is_capture == is_occupied_by_opponent(board, mv.to, board.side_to_move)
               IN  /\ is_castle => mv.to \in {2, 6, 58, 62}
                   /\ mv.promotion \subseteq {"Queen", "Rook", "Bishop", "Knight"}
                   /\ is_capture => get_piece_type(board, mv.to) \in PieceTypes
                   /\ ~make_move(board, mv).panic
                   /\ ~unmake_move_panics(mv)

\* A castling move, or a promotion that captures, has been made and unmade
CastlingOrPromotionMadeAndUnmade ==
    /\ last.op = "unmake_move" /\ panicked = "no"
    /\ last.kind \in {"castling", "promotion_capture"}
    /\ board = last.snapshot


\* The greatest element of a non-empty set of integers
maximum(S) == CHOOSE x \in S : \A y \in S : y <= x

\* The negamax recursion of minimax without alpha and beta: every legal move
\* of every node is searched
RECURSIVE negamax(_, _)
negamax(b, depth) ==
    IF depth = 0 THEN evaluate(b)
    ELSE LET legal == generate_legal_moves(b).moves
         IN  IF legal = << >> THEN evaluate_checkmate_or_stalemate(b)
             ELSE maximum({ -I32Max } \cup
                          { -negamax(make_move(b, legal[i]).board, depth - 1) :
                                i \in 1..Len(legal) })

\* In minimax(b, 2, -i32::MAX, i32::MAX) the loop over the replies to some root
\* move other than the first breaks on its first reply with replies left over
reply_loop_cut_off(b) ==
    LET legal == generate_legal_moves(b).moves
        child(i) == make_move(b, legal[i]).board
    IN  \E j \in 2..Len(legal) :
            LET alpha == maximum({ -negamax(child(i), 1) : i \in 1..(j - 1) })
                replies == generate_legal_moves(child(j)).moves
            IN  /\ alpha < I32Max
                /\ Len(replies) >= 2
                /\ -evaluate(make_move(child(j), replies[1]).board) >= -alpha

\* C29: pruning never changes a root score: the value minimax returns for the
\* full window, which depth_first_search negates into the score of the root
\* move that led to the board, equals the value of the same negamax recursion
\* without the alpha >= beta cutoff, and lies in [-i32::MAX, i32::MAX].
PruningKeepsRootScores ==
    /\ (last.op = "minimax" /\ panicked = "no") =>
           /\ last.score = negamax(last.snapshot, last.depth)
           /\ last.score \in (-I32Max)..I32Max
    /\ SearchMovesReturned =>
           \A k \in 1..Len(last.best_moves) :
               /\ last.best_moves[k].score =
                      -negamax(make_move(last.snapshot, last.best_moves[k].mv).board,
                               last.max_depth - 1)
               /\ last.best_moves[k].score \in (-I32Max)..I32Max

\* minimax of depth 2 has returned the unpruned value although the loop over
\* the replies to one of the root moves was cut off
PrunedSearchReturnedUnprunedValue ==
    /\ MinimaxReturned(2)
    /\ reply_loop_cut_off(last.snapshot)
    /\ last.score = negamax(last.snapshot, 2)


\* Every score and best_score held by a running minimax, the values returned
\* by the calls inside the search included, lies in [-i32::MAX, i32::MAX]
MinimaxValuesStayNegatable ==
    \A k \in 1..Len(history) :
        /\ history[k].score \in (-I32Max)..I32Max
        /\ history[k].best_score \in (-I32Max)..I32Max
        /\ history[k].alpha \in (-I32Max)..I32Max
        /\ history[k].beta \in (-I32Max)..I32Max


\* The number of positions reached from b by exactly `depth` legal moves, one
\* for each line of play
RECURSIVE positions_after(_, _)
positions_after(b, depth) ==
    IF depth = 0 THEN 1
    ELSE LET legal == generate_legal_moves(b).moves
             count[i \in 0..Len(legal)] ==
                 IF i = 0 THEN 0
                 ELSE count[i - 1]
                          + positions_after(make_move(b, legal[i]).board, depth - 1)
         IN  count[Len(legal)]

\* C30: perft(depth) returns without aborting for every depth >= 0 that the
\* `perft <depth>` command accepts, and for depth >= 1 its total is the sum
\* over the top-level legal moves of the number of positions reachable at
\* exactly depth plies through the move.
PerftReturnsForEveryDepth ==
    last.op = "perft" =>
        /\ panicked = "no"
        /\ last.depth >= 1 => last.nodes = positions_after(last.snapshot, last.depth)

\* The same for the depths from 1 on, in a build where a counter that passes
\* its top wraps around
PerftCountsPositionsFromDepthOne ==
    (last.op = "perft" /\ panicked = "no" /\ last.depth >= 1) =>
        last.nodes = positions_after(last.snapshot, last.depth)

\* perft 0 has been given on a board with a legal move and has not returned
PerftOfDepthZeroAborted ==
    /\ last.op = "perft"
    /\ panicked \in {"attempt to subtract with overflow",
                     "stack overflow in perft_helper(usize::MAX)"}

====
